---- MODULE Spec2Model ----
(***************************************************************************)
(* Hydration pipeline of GDC-ConsumerEdge/hydrator: the scheduler          *)
(* (BaseCli), the hydration unit (BaseHydrator) and the asyncio event loop *)
(* they run on.  Two packages are in the tree: src/hydrator (bounded       *)
(* queue fed by an enqueuer task, HydratorStatus flags) and src/hydrate    *)
(* (queue filled before the workers start, single-item path); args.pkg     *)
(* selects which one a behaviour follows.                                  *)
(***************************************************************************)
EXTENDS Integers, Sequences, FiniteSets, TLC

\* ------------------------------------------------------------- bounds
MaxItems == 3
MaxWorkers == 2
MaxValidators == 2
\* items plus optional stages switched on, per command line
MaxLoad == 4

VARIABLES
    args,        \* command-line configuration of the run (BaseCli.__init__)
    hydrators,   \* BaseCli.hydrators: the units created so far, in order
    queue,       \* asyncio.Queue of unit indexes
    hand,        \* per task: the unit it holds (0: none)
    tstate,      \* per task: its state in the event loop
    ready,       \* the event loop's FIFO of runnable tasks
    main_pc,     \* position of BaseCli.run
    exit_code,   \* process exit code (-1: still running)
    failures,    \* result of BaseCli.report / _gather_failures
    baseline,    \* outcome of an earlier run of the same items with worker count 0
    split,       \* one unit's _split_manifest pass, document by document
    sot,         \* the source of truth being parsed and its items selected
    proc,        \* one Process.run: the subprocess, its pipes and the runner
    krm,         \* one document's identity from its source file to the split
    parser,      \* the shared K8sResourceParser while two units render and split
    staged       \* two units' _process_dirs: the file cache and the staging directories

vars == <<args, hydrators, queue, hand, tstate, ready, main_pc, exit_code, failures, baseline, split, sot, proc, krm, parser, staged>>

\* ------------------------------------------------------------- tasks
\* The coroutine BaseCli.run itself; it drives the units when workers = 0.
MainTask == 0
\* Worker tasks are numbered as in _hydrate_async: range(1, workers + 1).
WorkerIds == 1..args.workers
\* The task running _enqueue_hydrators.
EnqTask == args.workers + 1
Tasks == 0..(args.workers + 1)
Drivers == {MainTask} \cup WorkerIds

Running(t) == tstate[t] = "running"

\* asyncio.Queue(self._workers * 2 if self._workers else 50)
QueueFactor == 2
QueueDefault == 50
QueueMaxsize == IF args.workers > 0 THEN args.workers * QueueFactor ELSE QueueDefault

\* ------------------------------------------------------------- status
Stages == {"hydrator_ok", "jinja_ok", "kustomize_ok", "split_ok", "validators_ok", "publish_ok"}

\* HydratorStatus(): every stage defaults to success.
HydratorStatus == [s \in Stages |-> TRUE]

\* HydratorStatus.__bool__: all stages successful.
StatusBool(st) == \A s \in Stages : st[s]

\* a marking that takes the unit's other stages down with it
set_failure_wide(h, stage) == [h EXCEPT !.status = [s \in Stages |-> FALSE]]

\* BaseHydrator._set_failure: marks one stage failed.
set_failure(h, stage) == [h EXCEPT !.status[stage] = FALSE]

\* BaseHydrator.__init__ (hydrator): the group's overlay, else the default
\* overlay, else none.  hydrate/_hydrate looks at the group's overlay only.
ResolveOverlay(pkg, group_exists, default_exists) ==
    IF group_exists THEN "group"
    ELSE IF pkg = "hydrator" /\ default_exists THEN "default"
    ELSE "None"

\* A freshly constructed unit for item i.  hydrate's TempDir() creates the
\* directory in its constructor; hydrator's TemporaryDirectory on entry.
NewHydrator(i, overlay) ==
    [ name          |-> i,
      overlay_path  |-> overlay,
      status        |-> HydratorStatus,
      rendered_path |-> "None",
      hydration_dest|-> FALSE,
      out_file      |-> FALSE,
      validated     |-> << >>,
      temp          |-> IF args.pkg = "hydrate" THEN "allocated" ELSE "none",
      pc            |-> "created",
      exc           |-> "none",
      trace         |-> << >>,
      runs          |-> 0 ]


\* ------------------------------------------------------------- environment
\* What the file system, the build tool, the validators and the registry
\* answer is drawn when the unit asks and recorded in the unit's trace as
\* <<stage, outcome>>.  A rerun of the same items (baseline.done) meets the
\* same environment: an item's outcome for a stage is the one recorded then.
Answers(tr, stage) == SelectSeq(tr, LAMBDA e : e[1] = stage)

EnvOK(i, stage, o) ==
    IF ~baseline.done \/ i > Len(baseline.hydrators)
    THEN TRUE
    ELSE IF Answers(baseline.hydrators[i].trace, stage) = << >>
    THEN TRUE
    ELSE Answers(baseline.hydrators[i].trace, stage)[1] = <<stage, o>>

Log(h, stage, o) == [h EXCEPT !.trace = Append(@, <<stage, o>>)]

\* ------------------------------------------------------------- event loop
\* A coroutine runs until it awaits something that is not ready; nothing
\* else runs in between (single-threaded cooperative scheduling).
NoYield == UNCHANGED <<tstate, ready>>

\* The await suspends the task until its I/O completes.  The main coroutine
\* has no sibling task while it drives units itself, so its waits are elided.
Yield(t) ==
    IF t = MainTask
    THEN NoYield
    ELSE tstate' = [tstate EXCEPT ![t] = "io"] /\ UNCHANGED ready

\* An await whose implementation is not known to wait for I/O: it may
\* suspend the task or return at once.
MaybeYield(t) == \E y \in BOOLEAN : IF y THEN Yield(t) ELSE NoYield

\* I/O completion (thread pool, subprocess exit) makes the task runnable.
io_complete(t) ==
    /\ tstate[t] = "io"
    /\ tstate' = [tstate EXCEPT ![t] = "ready"]
    /\ ready' = Append(ready, t)
    /\ UNCHANGED <<args, hydrators, queue, hand, main_pc, exit_code, failures, baseline, split, sot, proc, krm, parser, staged>>

\* The loop runs the oldest runnable task once the current one has suspended.
dispatch ==
    /\ \A t \in Tasks : ~Running(t)
    /\ ready # << >>
    /\ tstate' = [tstate EXCEPT ![Head(ready)] = "running"]
    /\ ready' = Tail(ready)
    /\ UNCHANGED <<args, hydrators, queue, hand, main_pc, exit_code, failures, baseline, split, sot, proc, krm, parser, staged>>

\* ------------------------------------------------------------- scheduler
\* BaseCli._generate_hydrators: the next unit of config_data (items are
\* numbered in source-of-truth order); appended to self.hydrators on creation.
NextItem == Len(hydrators) + 1
MoreItems == Len(hydrators) < args.items

\* BaseCli.run up to the choice of scheduling mode (_hydrate / _hydrate_many).
BaseCli_run ==
    /\ main_pc = "start"
    /\ IF args.pkg = "hydrate" /\ args.name # 0
       THEN main_pc' = "one" /\ UNCHANGED <<tstate, ready>>
       ELSE IF args.workers = 0
       THEN main_pc' = "seq" /\ UNCHANGED <<tstate, ready>>
       ELSE IF args.pkg = "hydrate"
       THEN main_pc' = "fill" /\ UNCHANGED <<tstate, ready>>
       ELSE \* _hydrate_async: create_task(enqueuer), create_task(worker i), gather
            /\ main_pc' = "gather"
            /\ tstate' = [t \in Tasks |-> IF t = MainTask THEN "wait" ELSE "ready"]
            /\ ready' = <<EnqTask>> \o [k \in 1..args.workers |-> k]
    /\ UNCHANGED <<args, hydrators, queue, hand, exit_code, failures, baseline, split, sot, proc, krm, parser, staged>>

\* hydrate/_hydrate_one: the unit named on the command line, built on the
\* CLI's own temp dir and run without a context manager.
hydrate_one ==
    /\ main_pc = "one"
    /\ IF MoreItems
       THEN \E g \in BOOLEAN :
              LET ov == ResolveOverlay(args.pkg, g, FALSE) IN
              /\ EnvOK(NextItem, "init", ov)
              /\ hydrators' = Append(hydrators,
                     [Log(NewHydrator(NextItem, ov), "init", ov)
                        EXCEPT !.pc = "entered", !.runs = 1])
              /\ hand' = [hand EXCEPT ![MainTask] = NextItem]
              /\ main_pc' = "one_run"
       ELSE \* KeyError: not found in source of truth
            /\ main_pc' = "report"
            /\ UNCHANGED <<hydrators, hand>>
    /\ UNCHANGED <<args, queue, tstate, ready, exit_code, failures, baseline, split, sot, proc, krm, parser, staged>>

\* Faulty variant: a loop that goes on to the next unit while one is open.
SequentialIdle_eager == TRUE

\* The for loop asks the generator for the next unit only after the with
\* block of the previous one was left.
SequentialIdle == hand[MainTask] = 0

\* The sequential loop of _hydrate / _hydrate_many: the generator yields the
\* next unit, or is exhausted.
hydrate_sequential ==
    /\ main_pc = "seq"
    /\ SequentialIdle
    /\ IF MoreItems
       THEN \E g \in BOOLEAN :
              LET ov == ResolveOverlay(args.pkg, g, args.default_overlay) IN
              /\ EnvOK(NextItem, "init", ov)
              /\ hydrators' = Append(hydrators, Log(NewHydrator(NextItem, ov), "init", ov))
              /\ hand' = [hand EXCEPT ![MainTask] = NextItem]
              /\ UNCHANGED main_pc
       ELSE /\ main_pc' = "report"
            /\ UNCHANGED <<hydrators, hand>>
    /\ UNCHANGED <<args, queue, tstate, ready, exit_code, failures, baseline, split, sot, proc, krm, parser, staged>>

\* hydrate/_hydrate_many_async: every unit is created and put_nowait into an
\* unbounded queue by the main coroutine; only then are the workers created.
hydrate_many_fill ==
    /\ main_pc = "fill"
    /\ IF MoreItems
       THEN \E g \in BOOLEAN :
              LET ov == ResolveOverlay(args.pkg, g, FALSE) IN
              /\ EnvOK(NextItem, "init", ov)
              /\ hydrators' = Append(hydrators, Log(NewHydrator(NextItem, ov), "init", ov))
              /\ queue' = Append(queue, NextItem)
              /\ UNCHANGED <<main_pc, tstate, ready>>
       ELSE /\ main_pc' = "gather"
            /\ tstate' = [t \in Tasks |-> IF t = MainTask THEN "wait"
                                          ELSE IF t = EnqTask THEN "none" ELSE "ready"]
            /\ ready' = [k \in 1..args.workers |-> k]
            /\ UNCHANGED <<hydrators, queue>>
    /\ UNCHANGED <<args, hand, exit_code, failures, baseline, split, sot, proc, krm, parser, staged>>

\* _enqueue_hydrators: for hydrator in hydrators: await queue.put(hydrator).
\* put returns at once while the queue has room and waits for a get otherwise.
enqueue_hydrators ==
    /\ Running(EnqTask)
    /\ IF hand[EnqTask] # 0
       THEN \* woken by a get: the loop of Queue.put looks at full() again
            IF Len(queue) < QueueMaxsize
            THEN /\ queue' = Append(queue, hand[EnqTask])
                 /\ hand' = [hand EXCEPT ![EnqTask] = 0]
                 /\ UNCHANGED <<hydrators, tstate>>
            ELSE /\ tstate' = [tstate EXCEPT ![EnqTask] = "blocked"]
                 /\ UNCHANGED <<hydrators, queue, hand>>
       ELSE IF MoreItems
       THEN \E g \in BOOLEAN :
              LET ov == ResolveOverlay(args.pkg, g, args.default_overlay) IN
              /\ EnvOK(NextItem, "init", ov)
              /\ hydrators' = Append(hydrators, Log(NewHydrator(NextItem, ov), "init", ov))
              /\ IF Len(queue) < QueueMaxsize
                 THEN /\ queue' = Append(queue, NextItem)
                      /\ UNCHANGED <<hand, tstate>>
                 ELSE /\ hand' = [hand EXCEPT ![EnqTask] = NextItem]
                      /\ tstate' = [tstate EXCEPT ![EnqTask] = "blocked"]
                      /\ UNCHANGED queue
       ELSE /\ tstate' = [tstate EXCEPT ![EnqTask] = "done"]
            /\ UNCHANGED <<hydrators, queue, hand>>
    /\ UNCHANGED <<args, ready, main_pc, exit_code, failures, baseline, split, sot, proc, krm, parser, staged>>

\* Faulty variant: a get that hands out the head and leaves it in the queue.
get_nowait_keep(q) == [item |-> Head(q), rest |-> q]

\* queue.get_nowait(): the head of the queue, removed.
get_nowait(q) == [item |-> Head(q), rest |-> Tail(q)]

\* Faulty variant: a worker that takes the next unit without awaiting the run
\* of the one it holds.
WorkerIdle_eager(w) == TRUE

\* A worker is back at the top of its loop only after "await hydrator.run()"
\* and the with block around it are over.
WorkerIdle(w) == hand[w] = 0

\* _hydration_worker, top of the loop: take the next unit, or return when
\* the queue is empty.  A get wakes the putter waiting on a full queue.
hydration_worker(w) ==
    /\ Running(w)
    /\ WorkerIdle(w)
    /\ IF queue = << >>
       THEN /\ tstate' = [tstate EXCEPT ![w] = "done"]
            /\ UNCHANGED <<queue, hand, ready>>
       ELSE /\ hand' = [hand EXCEPT ![w] = get_nowait(queue).item]
            /\ queue' = get_nowait(queue).rest
            /\ IF tstate[EnqTask] = "blocked"
               THEN /\ tstate' = [tstate EXCEPT ![EnqTask] = "ready"]
                    /\ ready' = Append(ready, EnqTask)
               ELSE UNCHANGED <<tstate, ready>>
    /\ UNCHANGED <<args, hydrators, main_pc, exit_code, failures, baseline, split, sot, proc, krm, parser, staged>>

\* asyncio.gather(*tasks) returns when the enqueuer and every worker returned.
gather_done ==
    /\ main_pc = "gather"
    /\ \A t \in Tasks \ {MainTask} : tstate[t] \in {"done", "none"}
    /\ main_pc' = "report"
    /\ tstate' = [tstate EXCEPT ![MainTask] = "running"]
    /\ UNCHANGED <<args, hydrators, queue, hand, ready, exit_code, failures, baseline, split, sot, proc, krm, parser, staged>>


\* ------------------------------------------------------------- hydration unit
\* The unit driver t holds, once it holds one at position pc.
Holds(t, pc) == Running(t) /\ hand[t] # 0 /\ hydrators[hand[t]].pc = pc

\* The unit of driver t replaced by h.
SetUnit(t, h) == hydrators' = [hydrators EXCEPT ![hand[t]] = h]

FrameUnit == UNCHANGED <<args, queue, hand, main_pc, exit_code, failures, baseline, split, sot, proc, krm, parser, staged>>

\* BaseHydrator.__aenter__ ("async with hydrator"): the staging directory is
\* allocated on entry (hydrate's __aenter__ does nothing: TempDir() made it).
\* Whether TemporaryDirectory's entry waits for I/O is not known.  The with
\* block is entered for whatever unit the driver took, run before or not.
aenter(t) ==
    /\ Running(t) /\ hand[t] # 0
    /\ hydrators[hand[t]].pc \in {"created", "exited"}
    /\ SetUnit(t, [hydrators[hand[t]] EXCEPT !.pc = "entered", !.temp = "allocated",
                                             !.runs = @ + 1])
    /\ IF args.pkg = "hydrator" /\ t # MainTask
       THEN MaybeYield(t)
       ELSE NoYield
    /\ FrameUnit

\* What _process_dirs can end in: written, a template error, (with split
\* output) a YAML error or another CliWarning out of the resource parser, or
\* an exception that is no CliWarning (unreadable file).
ComposeOutcomes ==
    {"ok", "jinja", "exc"} \cup (IF args.split_output THEN {"yaml", "warn"} ELSE {})

\* Faulty variant: a template error is logged and the unit goes on to build.
process_dirs_result_lenient(h, o) == [h EXCEPT !.pc = "composed"]

\* BaseHydrator._hydrate up to the build: the overlay check, then
\* _process_dirs and its except clause.
process_dirs_result(h, o) ==
    CASE o = "ok"    -> [h EXCEPT !.pc = "composed"]
      [] o = "jinja" -> [set_failure(h, "jinja_ok") EXCEPT !.pc = "hydrated"]
      [] o = "yaml"  -> [set_failure(h, "split_ok") EXCEPT !.pc = "hydrated"]
      [] o = "warn"  -> [h EXCEPT !.pc = "hydrated"]
      [] OTHER       -> [h EXCEPT !.pc = "raised", !.exc = "Exception"]

\* run() turns the CliWarning of a missing overlay into a failed pre-flight
\* flag (hydrator); hydrate's run() lets it propagate.
no_overlay(h) ==
    IF args.pkg = "hydrator"
    THEN [set_failure(h, "hydrator_ok") EXCEPT !.pc = "ran"]
    ELSE [h EXCEPT !.pc = "raised", !.exc = "CliWarning"]

process_dirs(t) ==
    /\ Holds(t, "entered")
    /\ LET h == hydrators[hand[t]] IN
       IF h.overlay_path = "None"
       THEN /\ SetUnit(t, no_overlay(h))
            /\ NoYield
       ELSE \E o \in ComposeOutcomes :
              /\ EnvOK(hand[t], "compose", o)
              /\ SetUnit(t, process_dirs_result(Log(h, "compose", o), o))
              /\ Yield(t)
    /\ FrameUnit

\* BaseHydrator._run_kustomize up to the start of the subprocess:
\* Process._find_in_path raises CliWarning when the binary is not on PATH,
\* which is re-raised as CliError with the build flag already cleared.
run_kustomize(t) ==
    /\ Holds(t, "composed")
    /\ LET h == [hydrators[hand[t]] EXCEPT !.hydration_dest = TRUE,
                                           !.rendered_path = "file"] IN
       \E o \in {"started", "missing"} :
          /\ EnvOK(hand[t], "kustomize", o)
          /\ IF o = "missing"
             THEN /\ SetUnit(t, [set_failure(Log(h, "kustomize", o), "kustomize_ok")
                                   EXCEPT !.pc = "raised", !.exc = "CliError"])
                  /\ NoYield
             ELSE /\ SetUnit(t, [Log(h, "kustomize", o) EXCEPT !.pc = "building"])
                  /\ Yield(t)
    /\ FrameUnit

\* Faulty variant: the exit code of the build tool is not looked at.
kustomize_exit_result_blind(h, rc) ==
    [h EXCEPT !.out_file = TRUE,
              !.pc = IF args.split_output THEN "built" ELSE "hydrated"]

\* Faulty variant: every exit of the build tool is taken for a failure.
kustomize_exit_result_strict(h, rc) ==
    [set_failure(h, "kustomize_ok") EXCEPT !.pc = "hydrated"]

\* Faulty variant: _hydrate returns after the build without splitting.
kustomize_exit_result_nosplit(h, rc) ==
    IF rc = 0
    THEN [h EXCEPT !.out_file = TRUE, !.pc = "hydrated"]
    ELSE [set_failure(h, "kustomize_ok") EXCEPT !.pc = "hydrated"]

\* The build tool has exited: returncode 0 leaves <name>.yaml in the
\* destination, any other marks the build failed.  _hydrate then splits when
\* split output is on and the build succeeded.
kustomize_exit_result(h, rc) ==
    IF rc = 0
    THEN [h EXCEPT !.out_file = TRUE,
                   !.pc = IF args.split_output THEN "built" ELSE "hydrated"]
    ELSE [set_failure(h, "kustomize_ok") EXCEPT !.pc = "hydrated"]

kustomize_exit(t) ==
    /\ Holds(t, "building")
    /\ \E rc \in {0, 1} :
          /\ EnvOK(hand[t], "returncode", rc)
          /\ SetUnit(t, kustomize_exit_result(Log(hydrators[hand[t]], "returncode", rc), rc))
    /\ NoYield
    /\ FrameUnit

\* BaseHydrator._split_manifest, as far as the unit's state goes: every
\* document resolved (the combined manifest is unlinked and rendered_path
\* becomes the directory), some left (it is rewritten), or an exception
\* (split flag cleared, CliError raised).
split_manifest_result(h, o) ==
    CASE o = "all"  -> [h EXCEPT !.out_file = FALSE, !.rendered_path = "dir", !.pc = "hydrated"]
      [] o = "some" -> [h EXCEPT !.pc = "hydrated"]
      [] OTHER      -> [set_failure(h, "split_ok") EXCEPT !.pc = "raised", !.exc = "CliError"]

split_manifest(t) ==
    /\ Holds(t, "built")
    /\ \E o \in {"all", "some", "error"} :
          /\ EnvOK(hand[t], "split", o)
          /\ SetUnit(t, split_manifest_result(Log(hydrators[hand[t]], "split", o), o))
    /\ Yield(t)
    /\ FrameUnit

\* Faulty variant: validation whatever the earlier stages ended in.
ValidationGate_open(h) == TRUE

\* The gate of run(): validation only if templating, build and split are ok.
ValidationGate(h) == h.status.jinja_ok /\ h.status.kustomize_ok /\ h.status.split_ok

\* What validator.valid is after run(): True, False, or still None when run
\* raised CliWarning (its binary is not on PATH).
ValidatorResults == {"True", "False", "None"}

\* Faulty variant: the loop over the validators stops at the first one that
\* is not valid.
RECURSIVE validate_loop_break(_, _, _)
validate_loop_break(res, k, acc) ==
    IF k > Len(res) \/ acc.any_failed THEN acc
    ELSE validate_loop_break(res, k + 1,
             [validated |-> Append(acc.validated, res[k]),
              any_failed |-> acc.any_failed \/ res[k] # "True"])

\* The loop of _validate from validator k on: v.run() (res[k] is what
\* v.valid is afterwards, a CliWarning being swallowed), validated.append(v),
\* "if not v.valid: any_failed = True".
RECURSIVE validate_loop(_, _, _)
validate_loop(res, k, acc) ==
    IF k > Len(res) THEN acc
    ELSE validate_loop(res, k + 1,
             [validated |-> Append(acc.validated, res[k]),
              any_failed |-> acc.any_failed \/ res[k] # "True"])

\* BaseHydrator._validate: every configured validator in turn; the stage
\* fails if any of them is not valid.
validate_result(h, res) ==
    LET out == validate_loop(res, 1, [validated |-> << >>, any_failed |-> FALSE])
        h1 == [Log(h, "validate", res) EXCEPT !.validated = out.validated] IN
    IF out.any_failed
    THEN set_failure(h1, "validators_ok")
    ELSE h1

validate(t) ==
    /\ Holds(t, "hydrated")
    /\ LET h == hydrators[hand[t]] IN
       IF ValidationGate(h) /\ h.rendered_path # "None"
       THEN \E res \in [1..args.validators -> ValidatorResults] :
               /\ EnvOK(hand[t], "validate", res)
               /\ SetUnit(t, [validate_result(h, res) EXCEPT !.pc = "validated"])
               /\ IF args.validators > 0 THEN Yield(t) ELSE NoYield
       ELSE /\ SetUnit(t, [h EXCEPT !.pc = "validated"])
            /\ NoYield
    /\ FrameUnit

\* The gate of run(): publish only if the status is all ok and a client exists.
PublishGate(h) == StatusBool(h.status) /\ args.oci_client

\* BaseHydrator._publish under run()'s "except CliWarning":
\* package_oci_artifact raises CliWarning when <name>.yaml is not there,
\* OrasCliClient.push raises it when oras is not on PATH and returns
\* otherwise, whatever oras exits with.  _hydration_dest is unset when
\* _hydrate returned before the build: AttributeError.
publish_result(h, o) ==
    CASE o = "unset_dest" -> [h EXCEPT !.pc = "raised", !.exc = "AttributeError"]
      [] o \in {"no_file", "no_oras"} -> [set_failure(h, "publish_ok") EXCEPT !.pc = "ran"]
      [] OTHER -> [h EXCEPT !.pc = "ran"]

PublishOutcomes(h) ==
    IF ~h.hydration_dest THEN {"unset_dest"}
    ELSE IF ~h.out_file THEN {"no_file"}
    ELSE {"pushed", "no_oras", "nonzero"}

publish(t) ==
    /\ Holds(t, "validated")
    /\ LET h == hydrators[hand[t]] IN
       IF PublishGate(h)
       THEN \E o \in PublishOutcomes(h) :
               /\ EnvOK(hand[t], "publish", o)
               /\ SetUnit(t, publish_result(Log(h, "publish", o), o))
       ELSE SetUnit(t, [h EXCEPT !.pc = "ran"])
    /\ NoYield
    /\ FrameUnit

\* TemporaryDirectory.__aexit__ / BaseHydrator.cleanup: the staging
\* directory is removed unless it is to be preserved.
cleanup(h) == IF args.preserve_temp THEN h ELSE [h EXCEPT !.temp = "released"]

\* cleanup() was not reached (_hydrate_one, run() raised).  A directory
\* named with --temp stays; the default TempDir() wraps
\* tempfile.TemporaryDirectory, whose finalizer removes it at interpreter exit.
skipped_cleanup(h, given) == IF given THEN h ELSE [h EXCEPT !.temp = "released"]

\* The unit leaves "async with hydrator" (or, in _hydrate_one, run() returned
\* or raised).  __aexit__ runs on every way out of the with block;
\* _hydrate_one calls cleanup() after run() and so not when run() raised.
\* A worker catches the exception and loops; the main coroutine does not.
aexit(t) ==
    /\ Running(t) /\ hand[t] # 0
    /\ hydrators[hand[t]].pc \in {"ran", "raised"}
    /\ LET h == hydrators[hand[t]]
           raised == h.pc = "raised" IN
       /\ IF main_pc = "one_run" /\ raised
          THEN \E given \in BOOLEAN :
                  SetUnit(t, [skipped_cleanup(h, given) EXCEPT !.pc = "exited"])
          ELSE SetUnit(t, [cleanup(h) EXCEPT !.pc = "exited"])
       /\ hand' = [hand EXCEPT ![t] = 0]
       /\ IF t = MainTask /\ raised
          THEN main_pc' = "crashed" /\ exit_code' = 1
          ELSE IF main_pc = "one_run"
          THEN main_pc' = "report" /\ UNCHANGED exit_code
          ELSE UNCHANGED <<main_pc, exit_code>>
    /\ IF args.pkg = "hydrator" /\ t # MainTask
       THEN MaybeYield(t)
       ELSE NoYield
    /\ UNCHANGED <<args, queue, failures, baseline, split, sot, proc, krm, parser, staged>>

\* ------------------------------------------------------------- report
\* cap_word_to_snake_case(v.__class__.__name__) of the one validator class.
ValidatorLabel == "gatekeeper"

Labels(cond, label) == IF cond THEN <<label>> ELSE << >>

\* BaseCli._gather_failures for one unit: the labels appended for it (none:
\* the unit is no key of the failures dict).
gather_failures(h) ==
    IF StatusBool(h.status) THEN << >>
    ELSE   Labels(~h.status.jinja_ok, "jinja")
        \o Labels(~h.status.kustomize_ok, "kustomize")
        \o Labels(~h.status.split_ok, "split output")
        \o Labels(~h.status.publish_ok, "OCI publish")
        \o (IF ~h.status.validators_ok
            THEN [k \in 1..Len(SelectSeq(h.validated, LAMBDA v : v = "False")) |-> ValidatorLabel]
            ELSE << >>)
        \o Labels(args.pkg = "hydrator" /\ ~h.status.hydrator_ok, "hydrator checks")

\* BaseCli.report and the end of BaseCli.run: exit code 1 if the failures
\* dict has any key.
BaseCli_report ==
    /\ main_pc = "report"
    /\ failures' = [i \in 1..Len(hydrators) |-> gather_failures(hydrators[i])]
    /\ exit_code' = IF \E i \in 1..Len(hydrators) : gather_failures(hydrators[i]) # << >>
                    THEN 1 ELSE 0
    /\ main_pc' = "done"
    /\ UNCHANGED <<args, hydrators, queue, hand, tstate, ready, baseline, split, sot, proc, krm, parser, staged>>

\* ------------------------------------------------------------- specification
\* The optional stages a configuration switches on.
Options(a) ==
    (IF a.split_output THEN 1 ELSE 0) + (IF a.oci_client THEN 1 ELSE 0)
    + (IF a.preserve_temp THEN 1 ELSE 0) + (IF a.default_overlay THEN 1 ELSE 0)
    + a.validators

\* The command lines considered: the --name form exists in hydrate only and
\* is served before the worker count is looked at; default_overlay says
\* that a default overlay is configured and exists (hydrator only).
Configs ==
    { a \in [ pkg : {"hydrator", "hydrate"}, workers : 0..MaxWorkers, name : {0, 1},
              default_overlay : BOOLEAN,
              split_output : BOOLEAN, oci_client : BOOLEAN, preserve_temp : BOOLEAN,
              validators : 0..MaxValidators, items : 0..MaxItems ] :
        /\ a.name = 1 => (a.pkg = "hydrate" /\ a.workers = 0)
        /\ a.default_overlay => a.pkg = "hydrator"
        /\ a.items + Options(a) <= MaxLoad }

\* ------------------------------------------------- resource identity
\* One document from its source file to the split: process_yaml_string
\* gives it a key, annotates it and records its path under the path-key; the
\* build may change its content but keeps the annotation; get_path computes
\* the path-key again.  A document is its content (body), the value of its
\* hydrator-uid annotation (NoUid: none) and whether it is a mapping with
\* apiVersion and kind.  A string (a name, an annotation value, a formatted
\* text) is the sequence of its pieces.  A digest is one-way and
\* collision-free: it is modelled by the tagged text that was digested.
Bodies == {"b1", "b2", "b3"}
NoUid == << >>
UniqueIds == {<<"c1">>, <<"c2">>}

\* sha256_digest(json.dumps(yaml_doc, sort_keys=True)): the annotation is
\* part of what is digested
sha256_digest(doc) == <<"sha256", doc.body>> \o doc.uid

\* a key that is always the digest of the document as it is
generate_key_digest(doc) == sha256_digest(doc)

\* K8sResourceParser._generate_key, for a valid document
generate_key(doc) == IF doc.uid # NoUid THEN doc.uid ELSE sha256_digest(doc)

\* the text between the two fields of the formatted path-key
KeySep == ",resource_key:"

\* f'uid:{unique_id},resource_key:{resource_key}'
path_key_text(resource_key, unique_id) == <<"uid:">> \o unique_id \o <<KeySep>> \o resource_key

\* a path-key that keeps the two fields apart
generate_path_key_pair(resource_key, unique_id) == <<"sha256", unique_id, resource_key>>

\* K8sResourceParser._generate_path_key
generate_path_key(resource_key, unique_id) ==
    <<"sha256">> \o path_key_text(resource_key, unique_id)

krm_add_annotation(doc, value) == [doc EXCEPT !.uid = value]

\* the annotations a source document may carry: none, or a key given to some
\* content by an earlier render
SourceDocs ==
    [ valid : BOOLEAN, body : Bodies,
      uid : {NoUid} \cup {sha256_digest([valid |-> TRUE, body |-> b, uid |-> NoUid]) : b \in Bodies} ]

NoKrm ==
    [ pc |-> "none", doc |-> [valid |-> TRUE, body |-> "b1", uid |-> NoUid], unique_id |-> <<"c1">>,
      resource_key |-> NoUid, recorded |-> NoUid,
      rendered |-> [valid |-> TRUE, body |-> "b1", uid |-> NoUid], looked_up |-> NoUid ]

KrmInputs ==
    { [NoKrm EXCEPT !.pc = "render", !.doc = d, !.unique_id = u] : d \in SourceDocs, u \in UniqueIds }

\* The parser is not being followed recording by recording: Spec keeps the
\* outcome of composing (process_dirs); SpecParser follows two units.
NoParser ==
    [ pc |-> "none", root |-> "overlays", nested |-> FALSE, annot |-> << >>, units |-> << >>,
      uid_to_path |-> << >>, overlay_resources |-> << >> ]

\* No staging directory is being followed file by file; SpecStaged follows
\* two units' _process_dirs.
NoStaged ==
    [ pc |-> "none", layout |-> << >>, module_dir |-> << >>, template |-> << >>,
      split_output |-> FALSE, file_cache |-> << >>, units |-> << >> ]

NoBaseline == [done |-> FALSE, hydrators |-> << >>, crashed |-> FALSE]

\* No subprocess is being followed write by write: Spec keeps the build
\* tool's start and exit (run_kustomize, kustomize_exit); SpecProc follows one
\* Process.run.
NoProc == [pc |-> "none", writes |-> << >>, exited |-> FALSE, stdout |-> 0, stderr |-> 0, logged |-> 0]

\* No source of truth is being followed row by row: Spec starts from the
\* selected items (args.items); SpecSot follows parsing and selection.
NoSot ==
    [ pc |-> "none", columns |-> {}, rows |-> << >>, selectors |-> [names |-> {}, groups |-> {}, tags |-> {}],
      workers |-> FALSE, line |-> 0, data |-> << >>, item |-> 0, hydrators |-> << >>,
      exit_code |-> -1 ]

\* No split pass is being followed document by document: Spec keeps only the
\* outcome of the pass (split_manifest); SpecSplit follows one pass.
NoSplit ==
    [ pc |-> "none", output_dir |-> << >>, uid_to_path |-> << >>,
      overlay_resources |-> [set |-> FALSE, dirs |-> {}],
      yaml_docs |-> << >>, n |-> 0, returned |-> << >>, filtered_yaml_docs |-> << >>,
      files |-> << >>, visited_files |-> {}, manifest |-> << >>, manifest_exists |-> FALSE,
      split_ok |-> TRUE ]

Init ==
    /\ args \in Configs
    /\ hydrators = << >>
    /\ queue = << >>
    /\ hand = [t \in Tasks |-> 0]
    /\ tstate = [t \in Tasks |-> IF t = MainTask THEN "running" ELSE "none"]
    /\ ready = << >>
    /\ main_pc = "start"
    /\ exit_code = -1
    /\ failures = << >>
    /\ baseline = NoBaseline
    /\ split = NoSplit
    /\ sot = NoSot
    /\ proc = NoProc
    /\ krm = NoKrm
    /\ parser = NoParser
    /\ staged = NoStaged

Next ==
    \/ BaseCli_run
    \/ hydrate_one
    \/ hydrate_sequential
    \/ hydrate_many_fill
    \/ enqueue_hydrators
    \/ \E w \in WorkerIds : hydration_worker(w)
    \/ gather_done
    \/ \E t \in Tasks : io_complete(t)
    \/ dispatch
    \/ \E t \in Drivers : aenter(t)
    \/ \E t \in Drivers : process_dirs(t)
    \/ \E t \in Drivers : run_kustomize(t)
    \/ \E t \in Drivers : kustomize_exit(t)
    \/ \E t \in Drivers : split_manifest(t)
    \/ \E t \in Drivers : validate(t)
    \/ \E t \in Drivers : publish(t)
    \/ \E t \in Drivers : aexit(t)
    \/ BaseCli_report

Spec == Init /\ [][Next]_vars

\* ------------------------------------------------------------- two runs
\* The same items hydrated twice: first with --workers 0, then, once that
\* run is over, by a fresh process with a worker count of at least the number
\* of items, into a destination of its own and in the same environment.
Terminated == main_pc \in {"done", "crashed"}

Rerun ==
    /\ Terminated
    /\ ~baseline.done
    /\ args.workers = 0 /\ args.name = 0
    /\ \E n \in 1..MaxWorkers :
          /\ n >= args.items
          /\ args' = [args EXCEPT !.workers = n]
          /\ hand' = [t \in 0..(n + 1) |-> 0]
          /\ tstate' = [t \in 0..(n + 1) |-> IF t = MainTask THEN "running" ELSE "none"]
    /\ baseline' = [done |-> TRUE, hydrators |-> hydrators, crashed |-> main_pc = "crashed"]
    /\ hydrators' = << >>
    /\ queue' = << >>
    /\ ready' = << >>
    /\ main_pc' = "start"
    /\ exit_code' = -1
    /\ failures' = << >>
    /\ UNCHANGED <<split, sot, proc, krm, parser, staged>>

NextPair ==
    \/ Next
    \/ Rerun

SpecPair == Init /\ [][NextPair]_vars

\* ------------------------------------------------------ the split pass
\* One unit's _split_manifest, followed document by document.  A path is the
\* sequence of its parts.  The build output is a sequence of documents, each
\* with its resource key; the parser has, for every key, the set of source
\* paths recorded while the sources were rendered, and, if an overlay
\* Kustomization below a directory named "overlays" was parsed for the unit,
\* the resolved entries of its resources list.
MaxDocs == 3

Keys == {"ka", "kb"}

None == << >>

PathA == <<"base_library", "a", "r.yaml">>
PathB == <<"base_library", "b", "r.yaml">>
PathC == <<"overlays", "c", "r.yaml">>
SourcePaths == {PathA, PathB, PathC}

ResA == <<"repo", "base_library", "a">>
ResB == <<"repo", "base_library", "b">>
ResC == <<"repo", "overlays", "c">>
OverlayEntries == {ResA, ResB, ResC}

\* tuple.index(x): the first position of x, 0 standing for ValueError
IndexOf(s, x) ==
    IF \E i \in 1..Len(s) : s[i] = x
    THEN CHOOSE i \in 1..Len(s) : s[i] = x /\ \A j \in 1..(i - 1) : s[j] # x
    ELSE 0

Parent(path) == SubSeq(path, 1, Len(path) - 1)

\* K8sResourceParser._in_overlay_paths, for a unit whose list is recorded
in_overlay_paths(path, dirs) ==
    \E o \in dirs :
        LET idx == IndexOf(o, Parent(path)[1])
        IN  idx > 0 /\ Parent(path) = SubSeq(o, idx, Len(o))

\* K8sResourceParser.get_path: the set of its possible outcomes.  With other
\* than one path on record the recorded set is iterated in the set's order,
\* and _in_overlay_paths reads self._overlay_resources[unique_id], a plain
\* dict: KeyError when no list was recorded for the unit.
get_path(paths, res) ==
    IF Cardinality(paths) = 1
    THEN {[exc |-> "none", path |-> p] : p \in paths}
    ELSE IF paths = {}
    THEN {[exc |-> "none", path |-> None]}
    ELSE IF ~res.set
    THEN {[exc |-> "KeyError", path |-> None]}
    ELSE IF \E p \in paths : in_overlay_paths(p, res.dirs)
    THEN {[exc |-> "none", path |-> p] : p \in {q \in paths : in_overlay_paths(q, res.dirs)}}
    ELSE {[exc |-> "none", path |-> None]}

\* hydration_dest of the unit: args.hydrated resolved against the working
\* directory, joined with the unit's name; the working directory may itself
\* lie below a directory named "base_library"
OutputDirs == {<<"output", "c1">>, <<"base_library", "output", "c1">>}

\* output_dir.joinpath(output_file), and when the joined path has a part
\* "base_library", the joined path without its parts of that name
OutputFile(output_dir, path) ==
    SelectSeq(output_dir \o path, LAMBDA part : part # "base_library")

OutFiles == {OutputFile(d, p) : d \in OutputDirs, p \in SourcePaths}

\* a document left in a destination file by an earlier run
StaleDoc == [id |-> 0, key |-> "stale", annotated |-> FALSE]

\* _open_or_create_file: what the file holds once it is open.  'a+' keeps the
\* content (a '---' line separates the next document), 'w' truncates.
open_or_create_file(files, visited, f) ==
    IF f \in visited THEN files[f] ELSE << >>

\* a document of the manifest that is no mapping with apiVersion and kind
\* has no key
Invalid == "invalid"

\* is_valid_object, on a document of the manifest
is_valid_object(doc) == doc.key \in Keys

\* krm_parser.get_path(doc, unique_id=self.name) as _split_manifest meets it:
\* _generate_key raises CliWarning for a document that is not valid
split_get_path(doc, uid_to_path, res) ==
    IF ~is_valid_object(doc)
    THEN {[exc |-> "CliWarning", path |-> None]}
    ELSE get_path(uid_to_path[doc.key], res)

\* the combined manifest as the build wrote it: document i carries key ks[i]
\* in its provenance annotation
BuildOutput(ks) == [i \in 1..Len(ks) |-> [id |-> i, key |-> ks[i], annotated |-> TRUE]]

OverlaySettings ==
    {[set |-> FALSE, dirs |-> {}]} \cup {[set |-> TRUE, dirs |-> d] : d \in SUBSET OverlayEntries}

SplitStart(d, u, o, old, ks) ==
    [ pc |-> "start", output_dir |-> d, uid_to_path |-> u, overlay_resources |-> o,
      yaml_docs |-> << >>, n |-> 0, returned |-> << >>, filtered_yaml_docs |-> << >>,
      files |-> [f \in OutFiles |-> old], visited_files |-> {},
      manifest |-> BuildOutput(ks), manifest_exists |-> TRUE, split_ok |-> TRUE ]

InitSplit ==
    /\ args = [pkg |-> "hydrator", workers |-> 0, name |-> 0, default_overlay |-> FALSE,
               split_output |-> TRUE, oci_client |-> FALSE, preserve_temp |-> FALSE,
               validators |-> 0, items |-> 1]
    /\ hydrators = << >>
    /\ queue = << >>
    /\ hand = [t \in Tasks |-> 0]
    /\ tstate = [t \in Tasks |-> IF t = MainTask THEN "running" ELSE "none"]
    /\ ready = << >>
    /\ main_pc = "start"
    /\ exit_code = -1
    /\ failures = << >>
    /\ baseline = NoBaseline
    /\ \E d \in OutputDirs, u \in [Keys -> SUBSET SourcePaths], o \in OverlaySettings,
          old \in {<< >>, <<StaleDoc>>}, k \in 0..MaxDocs :
          \E ks \in [1..k -> Keys \cup {Invalid}] :
             split = SplitStart(d, u, o, old, ks)
    /\ sot = NoSot
    /\ proc = NoProc
    /\ krm = NoKrm
    /\ parser = NoParser
    /\ staged = NoStaged

FrameSplit ==
    UNCHANGED <<args, hydrators, queue, hand, tstate, ready, main_pc, exit_code, failures, baseline,
                sot, proc, krm, parser, staged>>

\* aiofiles.open(self.rendered_path) ... sync_load_all_yaml(content)
split_read ==
    /\ split.pc = "start"
    /\ split' = [split EXCEPT
                   !.pc = "loop",
                   !.yaml_docs = split.manifest,
                   !.n = 1]
    /\ FrameSplit

\* one turn of `for doc in map(KrmResource, yaml_docs)`
split_doc ==
    /\ split.pc = "loop"
    /\ split.n <= Len(split.yaml_docs)
    /\ LET doc == split.yaml_docs[split.n]
       IN  \E r \in split_get_path(doc, split.uid_to_path, split.overlay_resources) :
             split' =
               IF r.exc # "none"
               THEN [split EXCEPT !.pc = "failed", !.split_ok = FALSE,
                                  !.returned = Append(@, r)]
               ELSE IF r.path # None
               THEN LET f == OutputFile(split.output_dir, r.path)
                        held == open_or_create_file(split.files, split.visited_files, f)
                    IN  [split EXCEPT
                           !.files[f] = Append(held, [doc EXCEPT !.annotated = FALSE]),
                           !.visited_files = @ \cup {f},
                           !.returned = Append(@, r),
                           !.n = @ + 1]
               ELSE [split EXCEPT !.filtered_yaml_docs = Append(@, doc),
                                  !.returned = Append(@, r),
                                  !.n = @ + 1]
    /\ FrameSplit

\* a rewrite that always writes the manifest back, also when empty
split_rewrite_keep ==
    /\ split.pc = "loop"
    /\ split.n > Len(split.yaml_docs)
    /\ split' = [split EXCEPT
                   !.pc = "done",
                   !.manifest = split.filtered_yaml_docs,
                   !.manifest_exists = TRUE]
    /\ FrameSplit

\* after the loop: the combined manifest is rewritten with the documents
\* that resolved to no path, or unlinked when there is none
split_rewrite ==
    /\ split.pc = "loop"
    /\ split.n > Len(split.yaml_docs)
    /\ split' = [split EXCEPT
                   !.pc = "done",
                   !.manifest = split.filtered_yaml_docs,
                   !.manifest_exists = (split.filtered_yaml_docs # << >>)]
    /\ FrameSplit

NextSplit ==
    \/ split_read
    \/ split_doc
    \/ split_rewrite

SpecSplit == InitSplit /\ [][NextSplit]_vars

\* ------------------------------------------------ the source of truth
\* BaseCli.run from the CSV file to the units: _process_sot_file row by row,
\* then _generate_hydrators item by item with the unit run by its consumer.
\* Rows are well-formed (one value per header column); a value is what
\* v.strip() leaves of it, the tags value being the sequence of its
\* comma-separated tags.  A column the header lacks is Absent in every row.
MaxRows == 2

Absent == "absent"
AbsentTags == <<"absent">>
NameValues == {"", "a", "b"}
GroupValues == {"", "g", "h"}
TagsValues == {<< >>, <<"t">>, <<"t", "u">>}
Columns == {"name", "group", "tags"}

RowsOf(cols) ==
    [ name  : IF "name" \in cols THEN NameValues ELSE {Absent},
      group : IF "group" \in cols THEN GroupValues ELSE {Absent},
      tags  : IF "tags" \in cols THEN TagsValues ELSE {AbsentTags} ]

\* the selector options exclude each other (add_mutually_exclusive_group)
Selectors ==
    { [names |-> {}, groups |-> {}, tags |-> {}],
      [names |-> {"a"}, groups |-> {}, tags |-> {}],
      [names |-> {"a", "b"}, groups |-> {}, tags |-> {}],
      [names |-> {}, groups |-> {"g"}, tags |-> {}],
      [names |-> {}, groups |-> {}, tags |-> {"t"}],
      [names |-> {}, groups |-> {}, tags |-> {"u"}] }

\* a check that lets a row without the tags column through
check_config_lax(cfg) ==
    IF cfg.name = Absent THEN "ConfigError"
    ELSE IF cfg.name = "" THEN "ConfigWarning"
    ELSE IF cfg.group = Absent THEN "ConfigError"
    ELSE IF cfg.group = "" THEN "ConfigError"
    ELSE "ok"

\* check_config: AttributeError from the property of a missing column is
\* ConfigError; an empty name is ConfigWarning, an empty group ConfigError
check_config(cfg) ==
    IF cfg.name = Absent THEN "ConfigError"
    ELSE IF cfg.name = "" THEN "ConfigWarning"
    ELSE IF cfg.group = Absent THEN "ConfigError"
    ELSE IF cfg.group = "" THEN "ConfigError"
    ELSE IF cfg.tags = AbsentTags THEN "ConfigError"
    ELSE "ok"

\* dict operations on data, an insertion-ordered dict keyed by name
HasKey(data, name) == \E k \in 1..Len(data) : data[k].name = name
DelKey(data, name) == SelectSeq(data, LAMBDA c : c.name # name)
SetKey(data, cfg) ==
    IF HasKey(data, cfg.name)
    THEN [k \in 1..Len(data) |-> IF data[k].name = cfg.name THEN cfg ELSE data[k]]
    ELSE Append(data, cfg)

\* {t.strip() for t in item_config.tags.split(",")}: "" splits into [""]
config_tags(tags) == IF tags = << >> THEN {""} ELSE {tags[k] : k \in 1..Len(tags)}

\* BaseCli._filter_item: TRUE when the item is not to be hydrated
filter_item(cfg, sel) ==
    IF sel.names # {} /\ cfg.name \notin sel.names THEN TRUE
    ELSE IF sel.groups # {} /\ cfg.group \notin sel.groups THEN TRUE
    ELSE IF sel.tags # {} /\ config_tags(cfg.tags) \cap sel.tags = {} THEN TRUE
    ELSE FALSE

\* run() is entered with the file, the selectors and the worker count given
SotStart(cols, rows, sel, w) ==
    [ pc |-> "sot", columns |-> cols, rows |-> rows, selectors |-> sel, workers |-> w,
      line |-> 1, data |-> << >>, item |-> 0, hydrators |-> << >>, exit_code |-> -1 ]

InitSot ==
    /\ args = [pkg |-> "hydrator", workers |-> 0, name |-> 0, default_overlay |-> FALSE,
               split_output |-> FALSE, oci_client |-> FALSE, preserve_temp |-> FALSE,
               validators |-> 0, items |-> 0]
    /\ hydrators = << >>
    /\ queue = << >>
    /\ hand = [t \in Tasks |-> 0]
    /\ tstate = [t \in Tasks |-> IF t = MainTask THEN "running" ELSE "none"]
    /\ ready = << >>
    /\ main_pc = "start"
    /\ exit_code = -1
    /\ failures = << >>
    /\ baseline = NoBaseline
    /\ split = NoSplit
    /\ \E cols \in SUBSET Columns, k \in 0..MaxRows :
          \E rows \in [1..k -> RowsOf(cols)], sel \in Selectors, w \in BOOLEAN :
             sot = SotStart(cols, rows, sel, w)
    /\ proc = NoProc
    /\ krm = NoKrm
    /\ parser = NoParser
    /\ staged = NoStaged

FrameSot ==
    UNCHANGED <<args, hydrators, queue, hand, tstate, ready, main_pc, exit_code, failures, baseline,
                split, proc, krm, parser, staged>>

\* one row of `for row in reader`.  ConfigError becomes CliError and run
\* returns 1; after ConfigWarning `del data[cfg.name]` raises KeyError for a
\* name that is no key of data, which nothing catches, and otherwise the
\* assignment after the try statement still stores the row.
process_sot_row ==
    /\ sot.pc = "sot"
    /\ sot.line <= Len(sot.rows)
    /\ LET cfg == sot.rows[sot.line]
           checked == check_config(cfg)
       IN  sot' =
             IF checked = "ConfigError"
             THEN [sot EXCEPT !.pc = "returned", !.exit_code = 1]
             ELSE IF checked = "ConfigWarning" /\ ~HasKey(sot.data, cfg.name)
             THEN [sot EXCEPT !.pc = "KeyError", !.exit_code = 1]
             ELSE IF checked = "ConfigWarning"
             THEN [sot EXCEPT !.data = SetKey(DelKey(@, cfg.name), cfg), !.line = @ + 1]
             ELSE [sot EXCEPT !.data = SetKey(@, cfg), !.line = @ + 1]
    /\ FrameSot

\* end of the file: self._config = data, self.hydrators = []
process_sot_file ==
    /\ sot.pc = "sot"
    /\ sot.line > Len(sot.rows)
    /\ sot' = [sot EXCEPT !.pc = "hydrate", !.item = 1]
    /\ FrameSot

\* one item of _generate_hydrators and, for an item that is not filtered
\* out, its unit run by the consumer: the sequential loop lets an exception
\* of run() through, a worker catches it
generate_hydrators ==
    /\ sot.pc = "hydrate"
    /\ sot.item <= Len(sot.data)
    /\ LET cfg == sot.data[sot.item]
       IN  IF filter_item(cfg, sot.selectors)
           THEN sot' = [sot EXCEPT !.item = @ + 1]
           ELSE \E ran \in {"ok", "failed", "raised"} :
                  sot' = IF ran = "raised" /\ ~sot.workers
                         THEN [sot EXCEPT !.hydrators = Append(@, [name |-> cfg.name, ran |-> ran]),
                                          !.pc = "crashed", !.exit_code = 1]
                         ELSE [sot EXCEPT !.hydrators = Append(@, [name |-> cfg.name, ran |-> ran]),
                                          !.item = @ + 1]
    /\ FrameSot

\* failures = self.report(); return 1 if failures else 0
run_report ==
    /\ sot.pc = "hydrate"
    /\ sot.item > Len(sot.data)
    /\ sot' = [sot EXCEPT
                 !.pc = "done",
                 !.exit_code = IF \E k \in 1..Len(sot.hydrators) : sot.hydrators[k].ran # "ok"
                               THEN 1 ELSE 0]
    /\ FrameSot

NextSot ==
    \/ process_sot_row
    \/ process_sot_file
    \/ generate_hydrators
    \/ run_report

SpecSot == InitSot /\ [][NextSot]_vars

\* ------------------------------------------------------ the subprocess
\* One Process.run and the tool it starts.  The tool writes chunks to its
\* standard output and standard error in some order and then exits; both are
\* pipes.  What a pipe can hold without a reader (the kernel's buffer and the
\* buffer the StreamReader fills before it pauses its transport) is
\* PipeCapacity chunks; a write to a full pipe blocks the tool.
MaxWrites == 4
PipeCapacity == 2

Streams == {"stdout", "stderr"}

ProcInputs ==
    { [pc |-> "start", writes |-> w, exited |-> FALSE, stdout |-> 0, stderr |-> 0, logged |-> 0] :
        w \in UNION {[1..k -> Streams] : k \in 0..MaxWrites} }

InitProc ==
    /\ args = [pkg |-> "hydrator", workers |-> 0, name |-> 0, default_overlay |-> FALSE,
               split_output |-> FALSE, oci_client |-> FALSE, preserve_temp |-> FALSE,
               validators |-> 0, items |-> 1]
    /\ hydrators = << >>
    /\ queue = << >>
    /\ hand = [t \in Tasks |-> 0]
    /\ tstate = [t \in Tasks |-> IF t = MainTask THEN "running" ELSE "none"]
    /\ ready = << >>
    /\ main_pc = "start"
    /\ exit_code = -1
    /\ failures = << >>
    /\ baseline = NoBaseline
    /\ split = NoSplit
    /\ sot = NoSot
    /\ proc \in ProcInputs
    /\ krm = NoKrm
    /\ parser = NoParser
    /\ staged = NoStaged

FrameProc ==
    UNCHANGED <<args, hydrators, queue, hand, tstate, ready, main_pc, exit_code, failures, baseline,
                split, sot, krm, parser, staged>>

\* self.proc = await asyncio.create_subprocess_exec(..., stdout=PIPE,
\* stderr=PIPE); the runner goes on to `await self.proc.wait()`
create_subprocess_exec ==
    /\ proc.pc = "start"
    /\ proc' = [proc EXCEPT !.pc = "wait"]
    /\ FrameProc

\* the tool's next write is to a pipe that is full
ToolBlocked ==
    /\ proc.writes # << >>
    /\ proc[Head(proc.writes)] >= PipeCapacity

\* the tool writes its next chunk
tool_write ==
    /\ proc.pc \notin {"none", "start"}
    /\ proc.writes # << >>
    /\ ~ToolBlocked
    /\ proc' = [proc EXCEPT ![Head(proc.writes)] = @ + 1, !.writes = Tail(@)]
    /\ FrameProc

\* the tool has written everything and exits, closing its ends of the pipes
tool_exit ==
    /\ proc.pc \notin {"none", "start"}
    /\ proc.writes = << >>
    /\ ~proc.exited
    /\ proc' = [proc EXCEPT !.exited = TRUE]
    /\ FrameProc

\* `await self.proc.wait()` returns once the tool has exited; nothing reads
\* the pipes until then
proc_wait ==
    /\ proc.pc = "wait"
    /\ proc.exited
    /\ proc' = [proc EXCEPT !.pc = "stdout"]
    /\ FrameProc

\* `async for bytes_ in reader` over stdout and then over stderr, after the
\* wait: a line is logged, or the stream is at its end and the next one (or
\* the end of run) follows
read_stream ==
    /\ proc.pc \in Streams
    /\ proc' = IF proc[proc.pc] > 0
               THEN [proc EXCEPT ![proc.pc] = @ - 1, !.logged = @ + 1]
               ELSE [proc EXCEPT !.pc = IF proc.pc = "stdout" THEN "stderr" ELSE "returned"]
    /\ FrameProc

NextProc ==
    \/ create_subprocess_exec
    \/ tool_write
    \/ tool_exit
    \/ proc_wait
    \/ read_stream

SpecProc == InitProc /\ [][NextProc]_vars

\* ------------------------------------------------- the shared parser
\* Two units render their sources and split their build output while they
\* share the one K8sResourceParser of the process.  Both walk the base
\* library (two files of one document each, annotated or not in the source)
\* and then their own overlay directory: its kustomization.yaml, one resource
\* file and, optionally, a sub-directory with a kustomization.yaml of its
\* own.  Item names come from the source of truth, which puts no restriction
\* on them beyond being non-empty.
ItemNames == {<<"a">>, <<"b">>, <<"a", KeySep, "b">>}

\* hydrator-uid annotations found in the source documents
AnnotValues == {NoUid, <<"c">>, <<"b", KeySep, "c">>}

OverlayRoots == {"overlays", "envs"}

ParserUnits == {1, 2}

Range(s) == {s[k] : k \in 1..Len(s)}

\* entries of a resources list, relative to the kustomization's directory
RelA == <<"..", "..", "base_library", "a">>
RelB == <<"..", "..", "base_library", "b">>

\* pathlib's resolve() of a relative path: ".." steps are folded and the
\* working directory is put in front
RECURSIVE Fold(_, _)
Fold(done, todo) ==
    IF todo = << >> THEN done
    ELSE IF Head(todo) = ".." /\ done # << >>
    THEN Fold(SubSeq(done, 1, Len(done) - 1), Tail(todo))
    ELSE Fold(Append(done, Head(todo)), Tail(todo))

Resolve(path) == <<"repo">> \o Fold(<< >>, path)

Resource(body, uid) ==
    [kind |-> "ConfigMap", valid |-> TRUE, body |-> body, uid |-> uid, resources |-> << >>]

Kustomization(resources) ==
    [kind |-> "Kustomization", valid |-> TRUE, body |-> "b3", uid |-> NoUid, resources |-> resources]

OverlayDir(root, i) == <<root, IF i = 1 THEN "g1" ELSE "g2">>

\* the files unit i is handed by _generate_dirs, in walking order: the base
\* library, then the overlay directory top-down
SourceFiles(root, nested, annot, i) ==
    << [path |-> PathA, docs |-> <<Resource("b1", annot[1])>>],
       [path |-> PathB, docs |-> <<Resource("b2", annot[2])>>],
       [path |-> OverlayDir(root, i) \o <<"kustomization.yaml">>, docs |-> <<Kustomization(<<RelA>>)>>],
       [path |-> OverlayDir(root, i) \o <<"r.yaml">>, docs |-> <<Resource("b3", NoUid)>>] >>
    \o (IF nested
        THEN << [path |-> OverlayDir(root, i) \o <<"sub", "kustomization.yaml">>,
                 docs |-> <<Kustomization(<<RelB>>)>>] >>
        ELSE << >>)

\* defaultdict(set) and dict, as functions whose domain grows
DictGet(d, k, default) == IF k \in DOMAIN d THEN d[k] ELSE default
DictSet(d, k, v) == [x \in DOMAIN d \cup {k} |-> IF x = k THEN v ELSE d[x]]

\* a recording that forgets what was on record under the path-key
record_path_replace(uid_to_path, path_key, path) == DictSet(uid_to_path, path_key, {path})

\* self._uid_to_path[uid_path_key].add(path)
record_path(uid_to_path, path_key, path) ==
    DictSet(uid_to_path, path_key, DictGet(uid_to_path, path_key, {}) \cup {path})

\* any(parent.name == "overlays" for parent in path.parents)
below_overlays(path) == \E k \in 1..(Len(path) - 1) : path[k] = "overlays"

\* one turn of `for doc in yaml_docs` of process_yaml_string, on the
\* parser's two maps, the documents kept so far (processed_docs), the pairs
\* (resource key, path) this unit has recorded and the overlay resource list
\* this unit has recorded
process_doc(st, doc, path, unique_id) ==
    IF ~doc.valid
    THEN st
    ELSE LET resource_key == generate_key(doc) IN
         IF doc.kind = "Kustomization"
         THEN IF below_overlays(path)
              THEN LET dirs == {Resolve(Parent(path) \o r) : r \in Range(doc.resources)}
                   IN  [st EXCEPT !.overlay_resources = DictSet(@, unique_id, dirs),
                                  !.own_resources = [set |-> TRUE, dirs |-> dirs]]
              ELSE st
         ELSE [st EXCEPT
                 !.processed_docs = Append(@, [doc |-> krm_add_annotation(doc, resource_key),
                                               path |-> path]),
                 !.own = @ \cup {<<resource_key, path>>},
                 !.uid_to_path =
                     record_path(@, generate_path_key(resource_key, unique_id), path)]

RECURSIVE process_docs(_, _, _, _)
process_docs(st, docs, path, unique_id) ==
    IF docs = << >> THEN st
    ELSE process_docs(process_doc(st, Head(docs), path, unique_id), Tail(docs), path, unique_id)

ParserStart(root, nested, annot, n1, n2) ==
    [ pc |-> "run", root |-> root, nested |-> nested, annot |-> annot,
      units |-> [i \in ParserUnits |->
                   [unique_id |-> IF i = 1 THEN n1 ELSE n2, n |-> 0, processed_docs |-> << >>,
                    own |-> {}, own_resources |-> [set |-> FALSE, dirs |-> {}],
                    returned |-> << >>]],
      uid_to_path |-> << >>, overlay_resources |-> << >> ]

InitParser ==
    /\ args = [pkg |-> "hydrator", workers |-> 2, name |-> 0, default_overlay |-> FALSE,
               split_output |-> TRUE, oci_client |-> FALSE, preserve_temp |-> FALSE,
               validators |-> 0, items |-> 2]
    /\ hydrators = << >>
    /\ queue = << >>
    /\ hand = [t \in Tasks |-> 0]
    /\ tstate = [t \in Tasks |-> IF t = MainTask THEN "running" ELSE "none"]
    /\ ready = << >>
    /\ main_pc = "start"
    /\ exit_code = -1
    /\ failures = << >>
    /\ baseline = NoBaseline
    /\ split = NoSplit
    /\ sot = NoSot
    /\ proc = NoProc
    /\ krm = NoKrm
    /\ \E root \in OverlayRoots, nested \in BOOLEAN, annot \in AnnotValues \X AnnotValues,
          n1 \in ItemNames, n2 \in ItemNames :
          /\ n1 # n2
          /\ parser = ParserStart(root, nested, annot, n1, n2)
    /\ staged = NoStaged

FrameParser ==
    UNCHANGED <<args, hydrators, queue, hand, tstate, ready, main_pc, exit_code, failures, baseline,
                split, sot, proc, krm, staged>>

UnitFiles(i) == SourceFiles(parser.root, parser.nested, parser.annot, i)

\* the overlay resource list as get_path reads it for a unit
OverlayOf(unique_id) ==
    IF unique_id \in DOMAIN parser.overlay_resources
    THEN [set |-> TRUE, dirs |-> parser.overlay_resources[unique_id]]
    ELSE [set |-> FALSE, dirs |-> {}]

\* unit i's krm_parser.process_yaml_string on its next source file: between
\* loading the documents and dumping them the loop runs without suspension
parser_process_yaml_string(i) ==
    /\ parser.pc = "run"
    /\ parser.units[i].n < Len(UnitFiles(i))
    /\ LET u == parser.units[i]
           f == UnitFiles(i)[u.n + 1]
           st == process_docs([uid_to_path |-> parser.uid_to_path,
                               overlay_resources |-> parser.overlay_resources,
                               processed_docs |-> u.processed_docs, own |-> u.own,
                               own_resources |-> u.own_resources],
                              f.docs, f.path, u.unique_id)
       IN  parser' = [parser EXCEPT
                        !.uid_to_path = st.uid_to_path,
                        !.overlay_resources = st.overlay_resources,
                        !.units[i].n = u.n + 1,
                        !.units[i].processed_docs = st.processed_docs,
                        !.units[i].own = st.own,
                        !.units[i].own_resources = st.own_resources]
    /\ FrameParser

\* unit i's split pass asks krm_parser.get_path for the next document of
\* its build output, which carries the annotation it was rendered with
parser_get_path(i) ==
    /\ parser.pc = "run"
    /\ parser.units[i].n = Len(UnitFiles(i))
    /\ Len(parser.units[i].returned) < Len(parser.units[i].processed_docs)
    /\ \A k \in 1..Len(parser.units[i].returned) : parser.units[i].returned[k].exc = "none"
    /\ LET u == parser.units[i]
           doc == u.processed_docs[Len(u.returned) + 1].doc
           path_key == generate_path_key(generate_key(doc), u.unique_id)
       IN  \E r \in get_path(DictGet(parser.uid_to_path, path_key, {}), OverlayOf(u.unique_id)) :
              parser' = [parser EXCEPT !.units[i].returned = Append(@, r)]
    /\ FrameParser

NextParser ==
    \E i \in ParserUnits :
        \/ parser_process_yaml_string(i)
        \/ parser_get_path(i)

SpecParser == InitParser /\ [][NextParser]_vars

\* ------------------------------------------------- the staging trees
\* Two units run _process_dirs concurrently: each walks the base library,
\* its own overlay directory and the modules directory, stages every file in
\* its own temporary directory and shares the process-wide FileCache with the
\* other.  A directory is the sequence of its parts, a file name the sequence
\* of its dot-separated pieces, a text the sequence of its pieces (the empty
\* text is the empty sequence).
Layouts ==
    { [base |-> <<"repo", "base_library">>, overlay |-> <<"repo", "overlays">>,
       modules |-> <<"repo", "modules">>],
      [base |-> <<"t1", "base_library">>, overlay |-> <<"t2", "overlays">>,
       modules |-> <<"repo", "modules">>],
      [base |-> <<"repo", "base_library">>, overlay |-> <<"repo", "config", "overlays">>,
       modules |-> <<"repo", "modules">>] }

\* the module directory that holds r.yaml
ModuleDirs == {<<"m1">>, <<"base_library", "a">>}

\* Jinja sources: a literal, a variable, a block that is conditional on the
\* item configuration
TemplateTexts == {<<"lit">>, <<"{{ name }}", "lit">>, <<"{% if flag %}x{% endif %}">>}

StagedUnits == {1, 2}

\* the item configuration of unit i, the rendering context
ItemConfig(i) == [name |-> IF i = 1 THEN "c1" ELSE "c2", group |-> IF i = 1 THEN "g1" ELSE "g2",
                  flag |-> (i = 1)]

TempPath(i) == <<"tmp", ItemConfig(i).name>>

IsPrefix(p, q) == Len(p) <= Len(q) /\ SubSeq(q, 1, Len(p)) = p

\* PurePath.relative_to, for a path below the other
relative_to(path, other) == SubSeq(path, Len(other) + 1, Len(path))

\* BaseHydrator._prepare_dir: the destination directory in the temporary
\* directory and the relative directory of a walked directory
prepare_dir(l, temp, root) ==
    IF IsPrefix(l.modules, root)
    THEN [ next_path |-> temp \o relative_to(l.base, Parent(l.base)) \o <<"modules">>
                              \o relative_to(root, l.modules),
           relative_path |-> relative_to(root, l.modules) ]
    ELSE IF IsPrefix(Parent(l.base), root)
    THEN [ next_path |-> temp \o relative_to(root, Parent(l.base)),
           relative_path |-> relative_to(root, Parent(l.base)) ]
    ELSE [ next_path |-> temp \o relative_to(root, Parent(l.overlay)),
           relative_path |-> relative_to(root, Parent(l.overlay)) ]

\* self._overlay_path of unit i: the overlay root joined with its group
overlay_path(l, i) == Append(l.overlay, ItemConfig(i).group)

\* hydration_src: self._temp.path.joinpath(*self._overlay_path.parts[-2:])
hydration_src(l, i) ==
    LET parts == overlay_path(l, i)
    IN  TempPath(i) \o SubSeq(parts, Len(parts) - 1, Len(parts))

\* is_jinja_template: dest_file.suffix == '.j2'
is_jinja_template(f) == Len(f) > 1 /\ f[Len(f)] = "j2"

\* PurePath.with_suffix("")
with_suffix_empty(f) == IF Len(f) > 1 THEN SubSeq(f, 1, Len(f) - 1) ELSE f

RECURSIVE render(_, _)
\* template.render_async(**cluster_config)
render(text, cfg) ==
    IF text = << >> THEN << >>
    ELSE (CASE Head(text) = "{{ name }}" -> <<cfg.name>>
            [] Head(text) = "{% if flag %}x{% endif %}" -> IF cfg.flag THEN <<"x">> ELSE << >>
            [] OTHER -> <<Head(text)>>)
         \o render(Tail(text), cfg)

\* what krm_parser.process_yaml_string returns for a text: the documents it
\* kept, annotated; the empty text when it kept none
processed_string(text, kind) ==
    IF kind = "resource" /\ text # << >> THEN Append(text, "hydrator-uid") ELSE << >>

\* the files unit i is handed by _generate_dirs, in walking order
WalkFiles(l, module_dir, template, i) ==
    << [root |-> Append(l.base, "a"), f |-> <<"r", "yaml">>, kind |-> "resource",
        contents |-> <<"base a">>],
       [root |-> l.base, f |-> <<"t", "yaml", "j2">>, kind |-> "resource",
        contents |-> template],
       [root |-> overlay_path(l, i), f |-> <<"kustomization", "yaml">>, kind |-> "other",
        contents |-> <<"kustomization", ItemConfig(i).group>>],
       [root |-> l.modules \o module_dir, f |-> <<"r", "yaml">>, kind |-> "resource",
        contents |-> <<"module">>] >>

\* lines 249-271 of _process_dirs on the cached text of one file
content_to_write(in_mem_file, f, kind, cfg, split_output) ==
    LET templated_str == IF is_jinja_template(f) THEN render(in_mem_file, cfg) ELSE None
        processed_str ==
            IF split_output
            THEN processed_string(IF templated_str # << >> THEN templated_str ELSE in_mem_file, kind)
            ELSE None
    IN  IF processed_str # << >> THEN processed_str
        ELSE IF templated_str # << >> THEN templated_str
        ELSE in_mem_file

StagedStart(l, module_dir, template, split_output) ==
    [ pc |-> "run", layout |-> l, module_dir |-> module_dir, template |-> template,
      split_output |-> split_output, file_cache |-> << >>,
      units |-> [i \in StagedUnits |->
                   [pc |-> "check", n |-> 0, temp |-> << >>, used |-> << >>, cwd |-> << >>]] ]

InitStaged ==
    /\ args = [pkg |-> "hydrator", workers |-> 2, name |-> 0, default_overlay |-> FALSE,
               split_output |-> FALSE, oci_client |-> FALSE, preserve_temp |-> FALSE,
               validators |-> 0, items |-> 2]
    /\ hydrators = << >>
    /\ queue = << >>
    /\ hand = [t \in Tasks |-> 0]
    /\ tstate = [t \in Tasks |-> IF t = MainTask THEN "running" ELSE "none"]
    /\ ready = << >>
    /\ main_pc = "start"
    /\ exit_code = -1
    /\ failures = << >>
    /\ baseline = NoBaseline
    /\ split = NoSplit
    /\ sot = NoSot
    /\ proc = NoProc
    /\ krm = NoKrm
    /\ parser = NoParser
    /\ \E l \in Layouts, module_dir \in ModuleDirs, template \in TemplateTexts,
          split_output \in BOOLEAN :
          staged = StagedStart(l, module_dir, template, split_output)

FrameStaged ==
    UNCHANGED <<args, hydrators, queue, hand, tstate, ready, main_pc, exit_code, failures, baseline,
                split, sot, proc, krm, parser>>

StagedFiles(i) == WalkFiles(staged.layout, staged.module_dir, staged.template, i)

\* file_cache_key = relative_dir.joinpath(f) of unit i's next file
file_cache_key(i) ==
    LET file == StagedFiles(i)[staged.units[i].n + 1]
    IN  [dir |-> prepare_dir(staged.layout, TempPath(i), file.root).relative_path, f |-> file.f]

\* `if file_cache_key not in file_cache:` and the start of
\* InMemoryTextFile.from_file, which suspends the unit
from_file(i) ==
    /\ staged.pc = "run"
    /\ staged.units[i].pc = "check"
    /\ staged.units[i].n < Len(StagedFiles(i))
    /\ file_cache_key(i) \notin DOMAIN staged.file_cache
    /\ staged' = [staged EXCEPT !.units[i].pc = "reading"]
    /\ FrameStaged

\* the rest of one turn of `for f in files`: the text read is put in the
\* cache (after a miss), the cached text is templated, processed and written
\* to the unit's temporary directory
stage_file(i) ==
    /\ staged.pc = "run"
    /\ staged.units[i].n < Len(StagedFiles(i))
    /\ IF staged.units[i].pc = "check"
       THEN file_cache_key(i) \in DOMAIN staged.file_cache
       ELSE staged.units[i].pc = "reading"
    /\ LET u == staged.units[i]
           file == StagedFiles(i)[u.n + 1]
           key == file_cache_key(i)
           cache == IF u.pc = "reading"
                    THEN DictSet(staged.file_cache, key,
                                 [file_path |-> [dir |-> file.root, f |-> file.f],
                                  contents |-> file.contents])
                    ELSE staged.file_cache
           in_mem_file == cache[key].contents
           dst == [dir |-> prepare_dir(staged.layout, TempPath(i), file.root).next_path,
                   f |-> IF is_jinja_template(file.f) THEN with_suffix_empty(file.f) ELSE file.f]
           written == content_to_write(in_mem_file, file.f, file.kind, ItemConfig(i),
                                       staged.split_output)
       IN  staged' = [staged EXCEPT
                        !.file_cache = cache,
                        !.units[i].pc = "check",
                        !.units[i].n = u.n + 1,
                        !.units[i].temp = DictSet(@, dst, written),
                        !.units[i].used = Append(@, [file |-> file, in_mem_file |-> in_mem_file,
                                                     dst |-> dst])]
    /\ FrameStaged

\* _hydrate after _process_dirs: the build is run with hydration_src as its
\* working directory
staged_run_kustomize(i) ==
    /\ staged.pc = "run"
    /\ staged.units[i].pc = "check"
    /\ staged.units[i].n = Len(StagedFiles(i))
    /\ staged' = [staged EXCEPT !.units[i].pc = "built",
                                !.units[i].cwd = hydration_src(staged.layout, i)]
    /\ FrameStaged

NextStaged ==
    \E i \in StagedUnits :
        \/ from_file(i)
        \/ stage_file(i)
        \/ staged_run_kustomize(i)

SpecStaged == InitStaged /\ [][NextStaged]_vars

\* ------------------------------------------- resource identity, steps
InitKrm ==
    /\ args = [pkg |-> "hydrator", workers |-> 0, name |-> 0, default_overlay |-> FALSE,
               split_output |-> TRUE, oci_client |-> FALSE, preserve_temp |-> FALSE,
               validators |-> 0, items |-> 1]
    /\ hydrators = << >>
    /\ queue = << >>
    /\ hand = [t \in Tasks |-> 0]
    /\ tstate = [t \in Tasks |-> IF t = MainTask THEN "running" ELSE "none"]
    /\ ready = << >>
    /\ main_pc = "start"
    /\ exit_code = -1
    /\ failures = << >>
    /\ baseline = NoBaseline
    /\ split = NoSplit
    /\ sot = NoSot
    /\ proc = NoProc
    /\ krm \in KrmInputs
    /\ parser = NoParser
    /\ staged = NoStaged

FrameKrm ==
    UNCHANGED <<args, hydrators, queue, hand, tstate, ready, main_pc, exit_code, failures, baseline,
                split, sot, proc, parser, staged>>

\* one document of process_yaml_string: a document that is no mapping or
\* lacks apiVersion or kind is ignored with a warning (`continue`); any other
\* gets its key, the annotation and its path recorded under the path-key
process_yaml_string ==
    /\ krm.pc = "render"
    /\ krm' = IF ~krm.doc.valid
              THEN [krm EXCEPT !.pc = "ignored"]
              ELSE LET resource_key == generate_key(krm.doc) IN
                   [krm EXCEPT
                      !.pc = "build",
                      !.resource_key = resource_key,
                      !.rendered = krm_add_annotation(krm.doc, resource_key),
                      !.recorded = generate_path_key(resource_key, krm.unique_id)]
    /\ FrameKrm

\* kustomize build: the content of the document may change (patches,
\* prefixes, labels); its annotation is kept
kustomize_build ==
    /\ krm.pc = "build"
    /\ \E b \in Bodies : krm' = [krm EXCEPT !.pc = "split", !.rendered.body = b]
    /\ FrameKrm

\* get_path on the built document: its key and path-key are computed again
get_path_key ==
    /\ krm.pc = "split"
    /\ krm' = [krm EXCEPT
                 !.pc = "done",
                 !.looked_up = generate_path_key(generate_key(krm.rendered), krm.unique_id)]
    /\ FrameKrm

NextKrm ==
    \/ process_yaml_string
    \/ kustomize_build
    \/ get_path_key

SpecKrm == InitKrm /\ [][NextKrm]_vars






\* ------------------------------------------------------------- properties
Units == 1..Len(hydrators)
FailedStages(h) == {s \in Stages : ~h.status[s]}
Exited(h) == h.pc = "exited"
InFlight == {i \in Units : hydrators[i].pc \notin {"created", "exited"}}
Building == {i \in Units : hydrators[i].pc = "building"}
Asked(h, stage) == Answers(h.trace, stage) # << >>
Answered(h, stage, o) == Asked(h, stage) /\ Answers(h.trace, stage)[1][2] = o
Holders(i) == {t \in Tasks : hand[t] = i}
Queued(i) == {k \in 1..Len(queue) : queue[k] = i}

\* C1: once the run has reported, the exit code is 0 if and only if no unit
\* has any of its six stage flags marked failed.
C1_ExitCodeIffNoFailedStage ==
    main_pc = "done" =>
        (exit_code = 0 <=> \A i \in Units : FailedStages(hydrators[i]) = {})

\* C2: in either scheduling mode, a unit's exception never ends the run
\* while selected units have still to be run.
C2_ExceptionNeverStopsOthers ==
    (args.name = 0 /\ main_pc = "crashed") => ~MoreItems

\* C3: with a worker count above 0 the scheduler does not get stuck with the
\* enqueuer blocked and every worker gone, and when it reports every
\* selected unit has been pulled from the queue and run to completion.
C3_EveryUnitRun ==
    (args.workers > 0 /\ args.name = 0) =>
        /\ ~(tstate[EnqTask] = "blocked" /\ \A w \in WorkerIds : tstate[w] = "done")
        /\ main_pc \in {"report", "done"} =>
              /\ Len(hydrators) = args.items
              /\ \A i \in Units : Exited(hydrators[i])

\* C4: with a worker count above 0 no unit is in two places at once (held by
\* two tasks, or held and still queued, or queued twice) and no unit's run
\* is started more than once.
C4_AtMostOneWorkerPerUnit ==
    args.workers > 0 =>
        \A i \in Units :
            /\ Cardinality(Holders(i)) + Cardinality(Queued(i)) <= 1
            /\ hydrators[i].runs <= 1

\* C4 witness: two workers each drive a unit of their own, both started once.
C4_Witness ==
    /\ args.workers = 2
    /\ hand[1] # 0 /\ hand[2] # 0 /\ hand[1] # hand[2]
    /\ hydrators[hand[1]].runs = 1 /\ hydrators[hand[2]].runs = 1
    /\ {hand[1], hand[2]} \subseteq InFlight

\* C5: with N > 0 workers at most N units are started and not finished,
\* and so at most N build subprocesses run at once.
C5_InFlightBounded ==
    args.workers > 0 =>
        /\ Cardinality(InFlight) <= args.workers
        /\ Cardinality(Building) <= args.workers

\* C5 witness: both of two workers have a build running while a third unit
\* waits in the queue.
C5_Witness ==
    /\ args.workers = 2
    /\ Cardinality(Building) = 2
    /\ queue # << >>

\* C6: with worker count 0 a unit is created and entered only after every
\* earlier unit has exited (run over, staging directory dealt with), so at
\* most one unit is in flight.
C6_StrictlySequential ==
    (args.workers = 0 /\ args.name = 0) =>
        /\ \A i \in Units : i < Len(hydrators) => Exited(hydrators[i])
        /\ Cardinality(InFlight) <= 1

\* C6 witness: the second unit of a sequential run is building, the first
\* has exited and released its staging directory.
C6_Witness ==
    /\ args.workers = 0 /\ args.name = 0 /\ ~args.preserve_temp
    /\ Len(hydrators) = 2
    /\ hydrators[2].pc = "building"
    /\ Exited(hydrators[1]) /\ hydrators[1].temp = "released"

\* What a run leaves for item i: its output and its failed stages (nothing
\* for an item no unit was made for).
Result(hs, i) ==
    IF i <= Len(hs)
    THEN [out |-> <<hs[i].out_file, hs[i].rendered_path>>, failed |-> FailedStages(hs[i])]
    ELSE [out |-> <<FALSE, "None">>, failed |-> {}]

\* C7: the run with worker count 0 and the run with worker count >= the
\* number of items leave the same output and the same failed stages for
\* every item.
C7_SameResultSequentialParallel ==
    (baseline.done /\ Terminated) =>
        \A i \in 1..args.items : Result(hydrators, i) = Result(baseline.hydrators, i)

\* The premise of C8: the overlay resolved, the templates composed, the
\* build tool exited 0, and the unit's run is over.
BuiltOk(h) ==
    /\ Exited(h)
    /\ h.overlay_path # "None"
    /\ Answered(h, "compose", "ok")
    /\ Answered(h, "returncode", 0)

\* C8 as stated: every unit with a resolved overlay, valid templates and a
\* build that exited 0 has produced <name>.yaml and has overall status success.
C8_BuiltMeansFileAndSuccess ==
    \A i \in Units :
        BuiltOk(hydrators[i]) => hydrators[i].out_file /\ StatusBool(hydrators[i].status)

\* C8 amended: such a unit has produced <name>.yaml unless the split moved
\* every document out of it or failed, and has overall status success if
\* moreover the split did not fail, every validator found it valid and the
\* push, if one was asked for, went through.
C8_Amended ==
    \A i \in Units :
        LET h == hydrators[i] IN
        BuiltOk(h) =>
            /\ (~Asked(h, "split") \/ Answered(h, "split", "some")) => h.out_file
            /\ ( /\ ~Answered(h, "split", "error")
                 /\ \A k \in 1..Len(h.validated) : h.validated[k] = "True"
                 /\ (~Asked(h, "publish") \/ Answered(h, "publish", "pushed")) )
               => StatusBool(h.status)

\* C8 witness: a unit went through split, validation and push and ended with
\* its file and overall success.
C8_Witness ==
    \E i \in Units :
        LET h == hydrators[i] IN
        /\ BuiltOk(h)
        /\ Answered(h, "split", "some")
        /\ Len(h.validated) = 1 /\ h.validated[1] = "True"
        /\ Answered(h, "publish", "pushed")
        /\ h.out_file /\ StatusBool(h.status)

\* C9: a unit that has exited, on whatever path, has released its staging
\* directory, unless preservation was requested and then still has it.
C9_StagingReleasedOnExit ==
    \A i \in Units :
        Exited(hydrators[i]) =>
            hydrators[i].temp = (IF args.preserve_temp THEN "allocated" ELSE "released")

\* C10: a unit whose overlay could not be resolved ends with the pre-flight
\* stage marked failed, without the build tool, the validators or the
\* registry having been asked, and does not end the run.
C10_NoOverlayFailsPreflight ==
    \A i \in Units :
        LET h == hydrators[i] IN
        (Exited(h) /\ h.overlay_path = "None") =>
            /\ ~h.status.hydrator_ok
            /\ ~Asked(h, "kustomize") /\ ~Asked(h, "validate") /\ ~Asked(h, "publish")
            /\ ~(main_pc = "crashed" /\ args.name = 0 /\ MoreItems)


\* A step that marks `stage` failed on one unit leaves every other unit as
\* it was.
OnlyOwnFlag(stage) ==
    \A i \in Units :
        (i <= Len(hydrators') /\ hydrators[i].status[stage] /\ ~hydrators'[i].status[stage])
            => \A j \in Units \ {i} : j <= Len(hydrators') /\ hydrators'[j] = hydrators[j]

\* What a template error in one of a unit's files leaves behind once the
\* unit has run: the templating flag alone failed, no later stage asked,
\* and, once the run has reported, exit code 1 and the label 'jinja'.
JinjaFailureContained ==
    \A i \in Units :
        LET h == hydrators[i] IN
        Answered(h, "compose", "jinja") =>
            /\ FailedStages(h) = {"jinja_ok"}
            /\ ~Asked(h, "kustomize") /\ ~Asked(h, "split")
            /\ ~Asked(h, "validate") /\ ~Asked(h, "publish")
            /\ Terminated => exit_code = 1
            /\ main_pc = "done" => failures[i] = <<"jinja">>

\* C11: a template error in item X marks X's templating stage failed and
\* nothing else: no build, split, validation or publish for X, no other
\* unit touched by the step, and the run ends non-zero with X reported as
\* failed on 'jinja'.
C11_TemplateFailureContained ==
    [](JinjaFailureContained) /\ [][OnlyOwnFlag("jinja_ok")]_vars

\* C11 witness: a reported run in which one unit failed on its template and
\* another hydrated successfully.
C11_Witness ==
    /\ main_pc = "done" /\ exit_code = 1
    /\ \E i, j \in Units :
          /\ Answered(hydrators[i], "compose", "jinja")
          /\ failures[i] = <<"jinja">>
          /\ StatusBool(hydrators[j].status) /\ hydrators[j].out_file
          /\ failures[j] = << >>


\* The build tool could not be run, or exited non-zero.
BuildFailed(h) == Answered(h, "kustomize", "missing") \/ Answered(h, "returncode", 1)

\* The build flag says exactly that, and a unit with a failed build is not
\* split, validated or published.
BuildFlagExact(h) ==
    /\ ~h.status.kustomize_ok <=> BuildFailed(h)
    /\ ~h.status.kustomize_ok =>
          ~Asked(h, "split") /\ ~Asked(h, "validate") /\ ~Asked(h, "publish")

\* The run ended on the exception of unit i with items still to run.
AbortedBy(i) ==
    main_pc = "crashed" /\ args.name = 0 /\ MoreItems /\ i = Len(hydrators)

AbsenceDetected == \E i \in Units : Answered(hydrators[i], "kustomize", "missing")

\* C13: once a unit has found the build tool missing from PATH, no unit's
\* run is started any more, whatever the scheduling mode.
C13_AbsenceAbortsRun ==
    [][AbsenceDetected =>
          \A j \in 1..Len(hydrators') :
              hydrators'[j].runs = (IF j <= Len(hydrators) THEN hydrators[j].runs ELSE 0)]_vars


\* C14: a unit for which validation was attempted (or any validator run)
\* has its pre-flight, templating, build and split stages marked successful.
C14_ValidationOnlyAfterSuccess ==
    \A i \in Units :
        LET h == hydrators[i] IN
        (Asked(h, "validate") \/ h.validated # << >>) =>
            /\ h.status.hydrator_ok /\ h.status.jinja_ok
            /\ h.status.kustomize_ok /\ h.status.split_ok

\* C14 witness: with a validator configured, one unit whose build failed has
\* exited without any validator run and another unit has been validated.
C14_Witness ==
    /\ args.validators = 1
    /\ \E i, j \in Units :
          /\ Exited(hydrators[i]) /\ Answered(hydrators[i], "returncode", 1)
          /\ hydrators[i].validated = << >>
          /\ Len(hydrators[j].validated) = 1

\* Every stage before publish is marked successful.
EarlierStagesOk(h) == \A s \in Stages \ {"publish_ok"} : h.status[s]

\* C15: publish is attempted for a unit only if every earlier stage is
\* marked successful, a registry client is configured and the build produced
\* its output; and it is attempted for every unit whose run got through
\* with those stages successful and a client configured.
C15_PublishIffAllEarlierOk ==
    \A i \in Units :
        LET h == hydrators[i] IN
        /\ Asked(h, "publish") =>
              EarlierStagesOk(h) /\ args.oci_client /\ Answered(h, "returncode", 0)
        /\ (h.pc \in {"ran", "exited"} /\ h.exc = "none" /\ EarlierStagesOk(h) /\ args.oci_client)
              => Asked(h, "publish")


\* C16: when validation is attempted every configured validator is run,
\* whatever the earlier ones reported, and the validation stage is marked
\* failed if and only if some validator did not report valid.
C16_AllValidatorsRun ==
    \A i \in Units :
        LET h == hydrators[i] IN
        /\ Asked(h, "validate") =>
              /\ Len(h.validated) = args.validators
              /\ h.validated = Answers(h.trace, "validate")[1][2]
        /\ ~h.status.validators_ok <=> \E k \in 1..Len(h.validated) : h.validated[k] # "True"

\* C16 witness: the first of two validators did not report valid (invalid,
\* or a swallowed warning), the second was run all the same and reported
\* valid, and the stage is marked failed.
C16_Witness ==
    \E i \in Units :
        LET h == hydrators[i] IN
        /\ Len(h.validated) = 2
        /\ h.validated[1] # "True" /\ h.validated[2] = "True"
        /\ ~h.status.validators_ok


\* The label _gather_failures uses for a failed stage.
StageLabel(s) ==
    CASE s = "jinja_ok"      -> "jinja"
      [] s = "kustomize_ok"  -> "kustomize"
      [] s = "split_ok"      -> "split output"
      [] s = "publish_ok"    -> "OCI publish"
      [] s = "hydrator_ok"   -> "hydrator checks"
      [] OTHER               -> ValidatorLabel

Occurrences(f, label) == Cardinality({k \in 1..Len(f) : f[k] = label})

\* C17: in the report a unit is listed as failed iff its overall status is
\* failed; its labels are one per failed stage (for validation: the name of
\* each failing validator, at least one), nothing else, and never empty; and
\* every unit is counted once, as succeeded or as failed.
C17_ReportMatchesStatus ==
    main_pc = "done" =>
        /\ Len(failures) = Len(hydrators)
        /\ \A i \in Units :
              LET h == hydrators[i]
                  f == failures[i] IN
              /\ f # << >> <=> ~StatusBool(h.status)
              /\ \A s \in Stages :
                    IF s \notin FailedStages(h) THEN Occurrences(f, StageLabel(s)) = 0
                    ELSE IF s = "validators_ok" THEN Occurrences(f, StageLabel(s)) >= 1
                    ELSE Occurrences(f, StageLabel(s)) = 1


\* C18: a unit whose registry push failed (push tool missing, or push tool
\* exited non-zero) has its publish stage marked failed, and raised nothing.
C18_PushFailureMarked ==
    \A i \in Units :
        LET h == hydrators[i] IN
        (Answered(h, "publish", "no_oras") \/ Answered(h, "publish", "nonzero")) =>
            ~h.status.publish_ok /\ h.exc = "none"


\* ------------------------------------------------------------- splitting
\* where document i of the build output is found once the pass is over
InFile(f, i) == {k \in 1..Len(split.files[f]) : split.files[f][k].id = i}
InManifest(i) ==
    IF split.manifest_exists
    THEN {k \in 1..Len(split.manifest) : split.manifest[k].id = i}
    ELSE {}
PlacesInFiles(i) == {<<f, k>> \in OutFiles \X (1..MaxDocs) : k \in InFile(f, i)}
Copies(i) == Cardinality(PlacesInFiles(i)) + Cardinality(InManifest(i))
SplitOver == split.pc \in {"done", "failed"}
Recombined ==
    UNION {{split.files[f][k].id : k \in 1..Len(split.files[f])} : f \in split.visited_files}
        \cup (IF split.manifest_exists
              THEN {split.manifest[k].id : k \in 1..Len(split.manifest)}
              ELSE {})
Conserved ==
    /\ \A i \in 1..Len(split.yaml_docs) : Copies(i) = 1
    /\ \A f \in split.visited_files : \A k \in 1..Len(split.files[f]) : split.files[f][k].id # 0
    /\ Recombined = 1..Len(split.yaml_docs)

\* C19: after a split pass every document of the build output is in exactly
\* one place, the file it resolved to or the retained combined manifest; no
\* destination file holds a document of an earlier run; the split files and
\* the retained manifest together hold the documents of the build output.
C19_SplitConservesDocuments == SplitOver => Conserved

\* what C20 promises for the i-th document of the build output
Recorded(i) ==
    IF is_valid_object(split.yaml_docs[i]) THEN split.uid_to_path[split.yaml_docs[i].key] ELSE {}
LiesWithin(p) ==
    split.overlay_resources.set /\ in_overlay_paths(p, split.overlay_resources.dirs)
Stays(i) ==
    /\ split.returned[i] = [exc |-> "none", path |-> None]
    /\ split.pc # "failed"
    /\ split.pc = "done" => InManifest(i) # {}

\* C20: with exactly one path on record that path is returned; with two or
\* more a recorded path lying within the overlay resource list is returned,
\* and when none lies within it no path is returned and the document stays in
\* the combined manifest.
C20_DestinationResolution ==
    \A i \in 1..Len(split.returned) :
        /\ Cardinality(Recorded(i)) = 1 =>
              split.returned[i].exc = "none" /\ split.returned[i].path \in Recorded(i)
        /\ (Cardinality(Recorded(i)) >= 2 /\ \E p \in Recorded(i) : LiesWithin(p)) =>
              /\ split.returned[i].exc = "none"
              /\ split.returned[i].path \in {p \in Recorded(i) : LiesWithin(p)}
        /\ (Cardinality(Recorded(i)) >= 2 /\ \A p \in Recorded(i) : ~LiesWithin(p)) =>
              Stays(i)

\* the documents of the build output for which get_path returned no path
Unresolved ==
    SelectSeq(split.yaml_docs, LAMBDA d : d.id <= Len(split.returned)
                                          /\ split.returned[d.id].path = None)

\* C21: after a split pass that did not fail the combined manifest exists iff
\* some document was unresolved, and then holds exactly the unresolved
\* documents; when every document resolved it is deleted and each document is
\* in a per-resource file.
C21_ManifestIffUnresolved ==
    split.pc = "done" =>
        /\ split.manifest_exists <=> Unresolved # << >>
        /\ split.manifest_exists => split.manifest = Unresolved
        /\ Unresolved = << >> =>
              \A i \in 1..Len(split.yaml_docs) : Cardinality(PlacesInFiles(i)) = 1

\* three documents all resolved, written to more than one file, manifest deleted
C21_Witness ==
    /\ split.pc = "done"
    /\ Len(split.yaml_docs) = MaxDocs
    /\ ~split.manifest_exists
    /\ Cardinality(split.visited_files) >= 2

\* ------------------------------------------------- selection and parsing
\* an item passes every supplied selector
Passes(cfg) ==
    /\ sot.selectors.names = {} \/ cfg.name \in sot.selectors.names
    /\ sot.selectors.groups = {} \/ cfg.group \in sot.selectors.groups
    /\ sot.selectors.tags = {} \/ \E k \in 1..Len(cfg.tags) : cfg.tags[k] \in sot.selectors.tags
HasUnit(name) ==
    Cardinality({k \in 1..Len(sot.hydrators) : sot.hydrators[k].name = name}) = 1
RunOver == sot.pc \in {"done", "crashed"}

\* C22: once the run is over, an item of the parsed configuration has a unit,
\* which was hydrated, if and only if it passes every supplied selector.
C22_UnitIffSelected ==
    RunOver => \A k \in 1..Len(sot.data) : HasUnit(sot.data[k].name) <=> Passes(sot.data[k])

\* the header of the source of truth lacks a required column
MissingColumn == sot.columns # Columns
Aborted ==
    /\ sot.pc \in {"sot", "returned", "KeyError"}
    /\ sot.hydrators = << >>
    /\ sot.pc # "sot" => sot.exit_code = 1

EmptyField(cfg) == cfg.name = "" \/ cfg.group = ""

\* C24: with every required column present, a row whose required field is
\* empty is skipped: it gives no entry of the parsed configuration and no
\* unit, and the run is not aborted because of it (parsing neither returns 1
\* nor raises), so the other rows are still parsed.
C24_EmptyFieldRowSkipped ==
    ~MissingColumn =>
        /\ sot.pc \notin {"returned", "KeyError"}
        /\ \A k \in 1..Len(sot.data) : ~EmptyField(sot.data[k])
        /\ \A k \in 1..Len(sot.hydrators) : sot.hydrators[k].name # ""

\* ------------------------------------------------------------- stage order
\* the place of a recorded step in the order (overlay lookup at
\* construction,) compose, build (start, exit), split, validate, publish
StageRank(stage) ==
    CASE stage = "init"       -> 0
      [] stage = "compose"    -> 1
      [] stage = "kustomize"  -> 2
      [] stage = "returncode" -> 3
      [] stage = "split"      -> 4
      [] stage = "validate"   -> 5
      [] OTHER                -> 6

InOrder(h) ==
    /\ \A a, b \in 1..Len(h.trace) :
          a < b => StageRank(h.trace[a][1]) < StageRank(h.trace[b][1])
    /\ Asked(h, "kustomize") => Answered(h, "compose", "ok")
    /\ Asked(h, "split") => Answered(h, "returncode", 0)
    /\ (Asked(h, "validate") /\ Asked(h, "kustomize")) => Asked(h, "returncode")
    /\ (Asked(h, "validate") /\ args.split_output /\ Answered(h, "returncode", 0)) =>
          (Asked(h, "split") /\ ~Answered(h, "split", "error"))
    /\ (Asked(h, "publish") /\ Asked(h, "kustomize")) => Asked(h, "validate")

\* C25: within a unit the stages occur in the order compose, build, split,
\* validate, publish: the build tool is started only after composing wrote
\* the staging tree, split only after the build tool exited with success,
\* validation only after the build and (with split output) the split are
\* over, publish only after validation.
C25_StagesInOrder == \A i \in Units : InOrder(hydrators[i])

\* a unit that went through all five stages
C25_Witness ==
    \E i \in Units :
        /\ Exited(hydrators[i])
        /\ \A s \in {"compose", "kustomize", "returncode", "split", "validate", "publish"} :
              Asked(hydrators[i], s)
        /\ Len(hydrators[i].validated) >= 1

\* ------------------------------------------------------------- pipes
\* C26: no state is reachable in which the tool is blocked writing to a full
\* pipe while the runner waits for it to exit.
C26_NoPipeDeadlock == ~(proc.pc = "wait" /\ ~proc.exited /\ ToolBlocked)

\* ------------------------------------------------------------- publishing
\* the unit rendered its output, every stage before publish succeeded, a
\* registry client is configured and the push did not fail
ReadyToPublish(h) ==
    /\ Exited(h)
    /\ args.oci_client
    /\ Answered(h, "returncode", 0)
    /\ EarlierStagesOk(h)
    /\ ~Answered(h, "publish", "no_oras")
    /\ ~Answered(h, "publish", "nonzero")

\* C27: a unit whose earlier stages all succeeded, with a registry client and
\* a push that succeeds, has its rendered output packaged and pushed and its
\* publish stage recorded as successful, with or without split output, also
\* when the split deleted the combined manifest.
C27_PublishSucceeds ==
    \A i \in Units :
        ReadyToPublish(hydrators[i]) =>
            Answered(hydrators[i], "publish", "pushed") /\ hydrators[i].status.publish_ok

\* ------------------------------------------------------------- identity
\* C28: the key of a document is the same each time it is computed, the key
\* of a valid document annotated with its key is that key, and so the
\* path-key computed for the built document at split time is the path-key
\* its source path was recorded under for the same item.
C28_IdentityStable ==
    krm.pc \in {"build", "split", "done"} =>
        /\ generate_key(krm.doc) = krm.resource_key
        /\ generate_key(krm_add_annotation(krm.doc, generate_key(krm.doc))) = generate_key(krm.doc)
        /\ generate_key(krm.rendered) = krm.resource_key
        /\ krm.pc = "done" => krm.looked_up = krm.recorded

\* a document without annotation whose content the build changed
C28_Witness ==
    /\ krm.pc = "done"
    /\ krm.doc.uid = NoUid
    /\ krm.rendered.body # krm.doc.body
    /\ krm.looked_up = krm.recorded

\* ------------------------------------------------------------- unresolved
\* document i cannot be resolved: no path on record for it, or several and
\* none of them within the overlay resource list, or several and no list
Unresolvable(i) ==
    /\ is_valid_object(split.yaml_docs[i])
    /\ Cardinality(Recorded(i)) # 1
    /\ \A p \in Recorded(i) : ~LiesWithin(p)
KeptUnresolved(i) ==
    /\ split.returned[i] = [exc |-> "none", path |-> None]
    /\ ~(split.pc = "failed" /\ i = Len(split.returned))
    /\ split.pc = "done" => InManifest(i) # {}

\* C29: a document of the build output that cannot be resolved is left in
\* the combined manifest: the pass does not raise on it, does not mark the
\* split failed for it and does not drop it.
C29_UnresolvedLeftInManifest ==
    \A i \in 1..Len(split.returned) : Unresolvable(i) => KeptUnresolved(i)

\* ------------------------------------------------------------- invalid
\* C30: a document that fails structural validation is skipped and never
\* treated as an error when the combined build output is split: the pass
\* raises nothing for it and the split stage is not marked failed.
C30_InvalidDocumentSkipped ==
    \A i \in 1..Len(split.returned) :
        ~is_valid_object(split.yaml_docs[i]) =>
            /\ split.returned[i].exc = "none"
            /\ ~(split.pc = "failed" /\ i = Len(split.returned))
            /\ split.split_ok

\* ------------------------------------------------------------ destination
\* the recorded source path without the reserved directory component
StripBase(path) == SelectSeq(path, LAMBDA part : part # "base_library")
Beneath(f, dir) == Len(f) > Len(dir) /\ SubSeq(f, 1, Len(dir)) = dir
WrittenAt(i) == split.output_dir \o StripBase(split.returned[i].path)

\* C31: every resolved document is written to the unit's destination
\* directory joined with its recorded source path without the base-library
\* component; only that component of the recorded path is removed, so every
\* file written by a split pass lies beneath the destination directory.
C31_WrittenBeneathDestination ==
    /\ \A i \in 1..Len(split.returned) :
          split.returned[i].path # None =>
              WrittenAt(i) \in OutFiles /\ InFile(WrittenAt(i), i) # {}
    /\ \A f \in split.visited_files : Beneath(f, split.output_dir)

\* ------------------------------------------------------------- isolation
\* the paths unit i itself recorded for a resource key
OwnPaths(i, resource_key) == {pr[2] : pr \in {q \in parser.units[i].own : q[1] = resource_key}}

\* what get_path may return for the j-th document of unit i from what unit
\* i alone has recorded
OwnOutcomes(i, j) ==
    get_path(OwnPaths(i, generate_key(parser.units[i].processed_docs[j].doc)),
             parser.units[i].own_resources)

\* C32: provenance is isolated per item: what one item records (source
\* paths, an overlay resource list) while rendering never changes the
\* destination resolved for a document of another item, under any
\* interleaving of their compose and split stages.
C32_ProvenanceIsolated ==
    \A i \in ParserUnits :
        \A j \in 1..Len(parser.units[i].returned) :
            parser.units[i].returned[j] \in OwnOutcomes(i, j)

\* ------------------------------------------------------------ provenance
\* every pair a unit has recorded is in the shared map
AllRecorded ==
    \A i \in ParserUnits :
        \A pr \in parser.units[i].own :
            pr[2] \in DictGet(parser.uid_to_path,
                              generate_path_key(pr[1], parser.units[i].unique_id), {})

\* nothing on record is removed by a step
NothingRemoved ==
    \A pk \in DOMAIN parser.uid_to_path :
        /\ pk \in DOMAIN parser'.uid_to_path
        /\ parser.uid_to_path[pk] \subseteq parser'.uid_to_path[pk]

\* C33: the shared provenance map grows monotonically and loses no update:
\* under any interleaving of concurrently composing units a recorded (path
\* key, source path) pair is never removed, and the map holds every pair
\* recorded by every unit, in particular once all units have composed.
C33_NoLostUpdate == []AllRecorded /\ [][NothingRemoved]_vars

\* both units are in the middle of composing, each has recorded a path, and
\* some path-key has two paths on record
C33_Witness ==
    /\ \A i \in ParserUnits :
          /\ 0 < parser.units[i].n
          /\ parser.units[i].n < Len(UnitFiles(i))
          /\ parser.units[i].own # {}
    /\ \E pk \in DOMAIN parser.uid_to_path : Cardinality(parser.uid_to_path[pk]) = 2

\* ------------------------------------------------------- resource lists
ComposedUnit(i) == parser.units[i].n = Len(UnitFiles(i))

\* the resources declared by the composition file of unit i's overlay, the
\* kustomization.yaml of its overlay directory, as resolved paths
Declared(i) ==
    LET f == UnitFiles(i)[3]
    IN  {Resolve(Parent(f.path) \o r) : r \in Range(f.docs[1].resources)}

\* C34: while an item is rendered a Kustomization document is never recorded
\* as a resource and never annotated; the resource paths it references are
\* recorded as the item's overlay resource list, and after composing that
\* list equals the resources declared by the composition file of the item's
\* overlay.
C34_KustomizationIsResourceList ==
    \A i \in ParserUnits :
        /\ \A j \in 1..Len(parser.units[i].processed_docs) :
              parser.units[i].processed_docs[j].doc.kind # "Kustomization"
        /\ \A pr \in parser.units[i].own :
              pr[2][Len(pr[2])] # "kustomization.yaml"
        /\ ComposedUnit(i) =>
              /\ parser.units[i].unique_id \in DOMAIN parser.overlay_resources
              /\ parser.overlay_resources[parser.units[i].unique_id] = Declared(i)

\* ---------------------------------------------------------------- staging
\* the k-th file unit i has staged, and what its staging directory holds
\* for it
StagedAs(i, k) == staged.units[i].temp[staged.units[i].used[k].dst]

\* C35: for every source file whose name carries the templating suffix the
\* staged file, named without the suffix, holds exactly the result of
\* rendering it with the item configuration, whatever the length of the
\* result; every other file is staged with content identical to its source
\* when split output is disabled.
C35_StagedContent ==
    \A i \in StagedUnits :
        \A k \in 1..Len(staged.units[i].used) :
            LET file == staged.units[i].used[k].file
            IN  IF is_jinja_template(file.f)
                THEN /\ staged.units[i].used[k].dst.f = with_suffix_empty(file.f)
                     /\ StagedAs(i, k) = render(file.contents, ItemConfig(i))
                ELSE ~staged.split_output => StagedAs(i, k) = file.contents

\* C36: for every item and every placement of the base and overlay roots the
\* working directory given to the build tool is the staging location into
\* which the item's overlay directory was composed: the overlay's files are
\* relocated relative to the overlay root's parent and the build reads that
\* location.
C36_BuildReadsStagedOverlay ==
    \A i \in StagedUnits :
        staged.units[i].pc = "built" =>
            \A k \in 1..Len(staged.units[i].used) :
                LET u == staged.units[i].used[k]
                IN  u.file.root = overlay_path(staged.layout, i) =>
                       /\ u.dst.dir = staged.units[i].cwd
                       /\ u.dst.dir = TempPath(i) \o relative_to(u.file.root,
                                                                 Parent(staged.layout.overlay))

\* ------------------------------------------------------------ file cache
\* a cached entry is not changed by a step
CacheKept ==
    \A key \in DOMAIN staged.file_cache :
        /\ key \in DOMAIN staged'.file_cache
        /\ staged'.file_cache[key] = staged.file_cache[key]

\* C37: the process-wide file cache never serves the wrong content: for
\* every file staged by any unit the text used is the content of that unit's
\* source file at that location; no two distinct source files of the base,
\* overlay and modules roots share a cache key.
C37_CacheServesOwnSource ==
    \A i \in StagedUnits :
        \A k \in 1..Len(staged.units[i].used) :
            LET u == staged.units[i].used[k]
            IN  /\ u.in_mem_file = u.file.contents
                /\ \A j \in StagedUnits :
                      \A m \in 1..Len(staged.units[j].used) :
                          LET v == staged.units[j].used[m]
                          IN  (v.file.root # u.file.root \/ v.file.f # u.file.f) =>
                                 prepare_dir(staged.layout, TempPath(j), v.file.root).relative_path
                                    # prepare_dir(staged.layout, TempPath(i), u.file.root).relative_path
                                 \/ v.file.f # u.file.f

\* a cached entry's content never changes once inserted, under any
\* interleaving of the units
CacheEntriesStable == [][CacheKept]_vars

\* ------------------------------------------------------------ stage flags
\* the flags (unit, stage) whose value a step changes
FlagsChanged ==
    {f \in (1..Len(hydrators)) \X Stages :
        hydrators'[f[1]].status[f[2]] # hydrators[f[1]].status[f[2]]}

OneFlagMarked ==
    /\ Len(hydrators') >= Len(hydrators)
    /\ Cardinality(FlagsChanged) <= 1
    /\ \A f \in FlagsChanged : hydrators[f[1]].status[f[2]] /\ ~hydrators'[f[1]].status[f[2]]

\* C38: marking a stage failed changes only that stage's flag of that unit:
\* every other flag of the unit and every flag of every other unit is left
\* unchanged (a publish failure leaves the earlier stages marked
\* successful), and a flag once marked failed is never reset to success.
C38_OnlyOwnFlagMarked == [][OneFlagMarked]_vars

\* a unit whose publish stage is marked failed with every earlier stage
\* successful, next to a unit with another stage marked failed
C38_Witness ==
    \E i \in 1..Len(hydrators), j \in 1..Len(hydrators) :
        /\ i # j
        /\ ~hydrators[i].status.publish_ok
        /\ \A s \in Stages \ {"publish_ok"} : hydrators[i].status[s]
        /\ \E s \in Stages \ {"publish_ok"} : ~hydrators[j].status[s]
        /\ hydrators[j].status.publish_ok

\* ---------------------------------------------------------------- report
\* the unit is counted as successfully rendered by BaseCli.report: it is no
\* key of the failures dict
CountedSuccessful(i) == failures[i] = << >>

\* the unit's build tool was invoked and exited 0
BuildCompleted(h) == Answered(h, "returncode", 0)

\* C39: every unit counted as successfully rendered in the final report
\* completed its build stage: its build tool was invoked and exited 0.  No
\* unit whose composing was abandoned, whose run raised an exception or which
\* was never run ends with all stage flags successful.
C39_SuccessfulMeansBuilt ==
    main_pc = "done" =>
        \A i \in Units :
            (CountedSuccessful(i) \/ StatusBool(hydrators[i].status)) =>
                BuildCompleted(hydrators[i])

====
